---------------------------- MODULE Spec2Model ----------------------------
(***************************************************************************)
(* A model of monitor.py, the facility-reservation vacancy monitor.        *)
(*                                                                         *)
(* Text is modelled as sequences of one-character strings.  The module     *)
(* language has no non-ASCII string literals, so the Japanese characters   *)
(* of the source are written with these ASCII tokens:                      *)
(*    "nen" = U+5E74 (year),  "gatsu" = U+6708 (month),                    *)
(*    "nichi" = U+65E5 (day),                                              *)
(*    "maru" = U+25CB (available), "sankaku" = U+25B3 (partial),           *)
(*    "batsu" = U+00D7 (unavailable), "mihantei" = the word for unknown,   *)
(*    "large_maru" = U+25EF (large circle), "kanji_zero" = U+3007          *)
(*    (ideographic zero), "fwsp" = U+3000 (ideographic space).             *)
(*                                                                         *)
(* Twelve specifications share the module:                                 *)
(*    SpecPure   applies the pure helper functions to bounded inputs,      *)
(*    SpecMain   is main() and the prelude of run_monitor(),               *)
(*    Spec       is the facility loop of run_monitor() for one facility    *)
(*               whose month_shifts is [0], over the persistent output     *)
(*               directory of its month, across consecutive runs,          *)
(*    SpecOwed   is Spec with the history of the improved days a run left  *)
(*               without a message,                                        *)
(*    SpecCells  is summarize_vacancies() over the cells of a calendar,    *)
(*    SpecNotify is send_aggregate_lines() and the webhook client,         *)
(*    SpecLoop   is run_monitor() from the browser launch to its end,      *)
(*               over several facilities and their month shifts,           *)
(*    SpecWrite  is safe_write_text() on status_counts.json and the next   *)
(*               run's load_last_payload(),                                *)
(*    SpecNav    is the way to a facility after the first one,             *)
(*    SpecClick  is click_next_month() and the month text a month is       *)
(*               captured under,                                           *)
(*    SpecSlots  is the drill into one improved day, run after run,        *)
(*    SpecDrill  is the drill into the improved days of one month.         *)
(***************************************************************************)
EXTENDS Integers, Sequences, FiniteSets, TLC

VARIABLES
    \* ---- harness of the pure functions (SpecPure)
    fn,        \* the function last applied ("none" before the first call)
    arg,       \* its arguments
    res,       \* its result
    cur,       \* _split_content: the local 'cur'
    out,       \* _split_content: the local 'out'
    lastcut,   \* _split_content: the text and cut index of the last iteration
    \* ---- main() and the prelude of run_monitor() (SpecMain)
    MONITOR_FORCE,       \* the environment toggle MONITOR_FORCE == "1"
    MONITOR_START_HOUR,  \* the environment's window start
    MONITOR_END_HOUR,    \* the environment's window end
    pytz,                \* "ok", "raises" (pytz.timezone fails) or "absent" (import failed)
    jst_hour,            \* the hour of the day in Asia/Tokyo
    local_hour,          \* the hour of the day of the process's naive local clock
    args,                \* the parsed command line: [force, facility]
    config_json,         \* the document config.json holds: [keys, facilities]
    config_temp,         \* the document config.temp.json holds, NoDict before it is written
    CONFIG_PATH,         \* the module global: "config.json" or "config.temp.json"
    mpc,                 \* where main() / run_monitor() stands, or how the process ended
    within,              \* main's local 'within'
    now,                 \* main's local 'now': an hour, or -1 for None
    exit_code,           \* the process's exit status, -1 while it runs
    error,               \* the key an uncaught or logged configuration error names
    loads,               \* the number of load_config() calls that returned a document
    browser,             \* the number of browser sessions launched
    posts,               \* the number of webhook requests made
    \* ---- the facility / month loop of run_monitor() (Spec)
    disk,                \* OUTPUT_ROOT/<facility>/<month>: [payload, files]
    retention,           \* the configuration's caps: [png, html]
    rpc,                 \* where the loop stands
    month_text,          \* the local month_text
    summary,             \* the local summary
    details,             \* the local details
    prev_payload,        \* the local prev_payload
    changed,             \* the local changed
    ts_pair,             \* whether save_calendar_assets returned a stamped pair
    time_lines,          \* the local time_lines
    calls,               \* the calls of send_aggregate_lines this run made
    saved_now,           \* history: this run has written the month's payload
    saved_last,          \* history: the previous run wrote the month's payload
    owed_last            \* history (SpecOwed): the improved days the previous run persisted
                         \* and handed no message on for

VARIABLES
    \* ---- summarize_vacancies() over the cells of one calendar (SpecCells)
    html_ok,             \* whether calendar_root.evaluate returned the markup
    td,                  \* the cell the loop looked at last, NoDict before the first
    td_out,              \* the Day Detail made of it, NoDict when it was skipped
    cell_count,          \* the number of cells the loop has looked at
    cell_summary,        \* the local summary
    cell_details,        \* the local details
    spc                  \* where summarize_vacancies stands

VARIABLES
    \* ---- send_aggregate_lines() and the webhook client (SpecNotify)
    menv,                \* the mention settings of the environment
    force_text,          \* DISCORD_FORCE_TEXT == "1"
    hook_url,            \* the argument webhook_url
    agg_lines,           \* the argument lines
    npc,                 \* where the call stands
    pages_left,          \* send_text: the pages not yet posted
    tries,               \* _post: the local tries
    attempts,            \* _post: the answers to this call's requests and the sleeps after them
    payloads,            \* the payloads handed to _post, with the status returned for each
    ok_all,              \* send_text: the local ok_all
    sent                 \* what send_embed / send_text returned: "True", "False", "none" before

VARIABLES
    \* ---- run_monitor() over several facilities and month shifts (SpecLoop)
    BASE_URL,            \* the environment's BASE_URL, None when it is not set
    facilities,          \* config["facilities"]: a sequence of [month_shifts]
    session,             \* the browser session: "none", "open" or "closed"
    idx,                 \* the facility the loop stands at (from 1), 0 before the loop
    step,                \* the month shift the facility's month loop stands at
    lpc,                 \* where run_monitor stands, or how it ended
    log,                 \* history: the steps taken, in order: [fac, shift, op]
    written,             \* the files this run wrote: [fac, shift, file, at]
    failed_step,         \* history: per facility, the step whose next-month click failed, or 0
    frozen               \* history: per facility, its files when that click failed

VARIABLES
    \* ---- safe_write_text() on status_counts.json and the next run's read (SpecWrite)
    dirfiles,                  \* the files of the output directory: path -> [doc, len]
    wpc,                 \* where safe_write_text stands, or "stopped"
    new_doc,             \* the payload being written
    prev_doc,            \* history: the payload the target held when the write began
    baseline,            \* what load_last_payload returned last (0 for None)
    writes               \* the number of writes begun

VARIABLES
    \* ---- the way to a facility after the first one (SpecNav)
    facility_codes,      \* per facility, whether a building code is known for it
    nav_idx,             \* the facility the loop stands at (the first one is 1)
    nav_pc,              \* the step of the chain to take next
    nav_steps,           \* history: the steps taken for this facility, [step, result]
    nav_done             \* history: per facility done, [steps, fate]

VARIABLES
    \* ---- the time slots of one improved day over consecutive runs (SpecSlots)
    rows,                \* the time-band table of the day: row -> "aki" or "yoyaku"
    reported,            \* the ranges of the line build_time_increase_lines made
    day_docs,            \* the documents of the output directory other than the payload's
    prev_avail,          \* history: the ranges that were available at the drill before
    drills               \* the number of runs that drilled into the day

VARIABLES
    \* ---- the drill into the improved days of one month (SpecDrill)
    drill_pc,            \* "loop" while build_time_increase_lines runs, then how it ended
    drill_log            \* history: per improved day taken up, [path, back]

pvars == <<fn, arg, res, cur, out, lastcut>>
mvars == <<MONITOR_FORCE, MONITOR_START_HOUR, MONITOR_END_HOUR, pytz, jst_hour, local_hour,
           args, config_json, config_temp, CONFIG_PATH, mpc, within, now, exit_code, error,
           loads, browser, posts>>
rvars == <<disk, retention, rpc, month_text, summary, details,
           prev_payload, changed, ts_pair, time_lines, calls, saved_now, saved_last,
           owed_last>>
cvars == <<html_ok, td, td_out, cell_count, cell_summary, cell_details, spc>>
nvars == <<menv, force_text, hook_url, agg_lines, npc, pages_left, tries, attempts, payloads,
           ok_all, sent>>
lvars == <<BASE_URL, facilities, session, idx, step, lpc, log, written, failed_step, frozen>>
wvars == <<dirfiles, wpc, new_doc, prev_doc, baseline, writes>>
fvars == <<facility_codes, nav_idx, nav_pc, nav_steps, nav_done>>
svars == <<rows, reported, day_docs, prev_avail, drills>>
dvars == <<drill_pc, drill_log>>
yvars == <<wvars, fvars, svars, dvars>>
xvars == <<cvars, nvars, lvars, yvars>>
vars == <<pvars, mvars, rvars, xvars>>

\* what a run is started with: environment, clock, command line, configuration
env == <<MONITOR_FORCE, MONITOR_START_HOUR, MONITOR_END_HOUR, pytz, jst_hour, local_hour,
         args, config_json>>

\* the variables the actions of one specification leave to the others
NotPure == <<mvars, rvars, xvars>>
NotMain == <<pvars, rvars, xvars>>
NotRun == <<pvars, mvars, xvars>>
NotCells == <<pvars, mvars, rvars, nvars, lvars, yvars>>
NotNotify == <<pvars, mvars, rvars, cvars, lvars, yvars>>
NotLoop == <<pvars, mvars, rvars, cvars, nvars, yvars>>
NotWrite == <<pvars, mvars, rvars, cvars, nvars, lvars, fvars, svars, dvars>>
NotNav == <<pvars, mvars, rvars, cvars, nvars, lvars, wvars, svars, dvars>>
NotSlots == <<pvars, mvars, rvars, cvars, nvars, lvars, wvars, fvars, dvars>>
NotDrill == <<pvars, mvars, rvars, cvars, nvars, lvars, wvars, fvars, svars>>

(* Python's None.  Values of different kinds cannot be compared, so each kind
   has its own None: NoText for an Optional[str], NoDict for an Optional[dict],
   the empty tuple for an Optional[tuple], 0 for an Optional day number. *)
None == "None"
NoText == <<"None">>
NoDict == [is_none |-> TRUE]

-----------------------------------------------------------------------------
(* Generic helpers *)

Max(S) == CHOOSE x \in S : \A y \in S : y <= x
Min(S) == CHOOSE x \in S : \A y \in S : x <= y

Range(s) == {s[i] : i \in DOMAIN s}

RECURSIVE SeqsUpTo(_, _)
\* every sequence over S of length at most n
SeqsUpTo(S, n) ==
    IF n = 0 THEN {<<>>}
    ELSE LET shorter == SeqsUpTo(S, n - 1)
         IN shorter \cup {Append(q, x) : q \in {r \in shorter : Len(r) = n - 1}, x \in S}

RECURSIVE Flatten(_)
Flatten(ss) == IF ss = <<>> THEN <<>> ELSE Head(ss) \o Flatten(Tail(ss))

Digits == {"0", "1", "2", "3", "4", "5", "6", "7", "8", "9"}

\* int() of one decimal digit
DigitVal(c) ==
    CASE c = "0" -> 0 [] c = "1" -> 1 [] c = "2" -> 2 [] c = "3" -> 3 [] c = "4" -> 4
      [] c = "5" -> 5 [] c = "6" -> 6 [] c = "7" -> 7 [] c = "8" -> 8 [] c = "9" -> 9

DigitChar(d) == <<"0", "1", "2", "3", "4", "5", "6", "7", "8", "9">>[d + 1]

RECURSIVE IntOf(_)
\* int() of a string of decimal digits
IntOf(ds) ==
    IF ds = <<>> THEN 0
    ELSE 10 * IntOf(SubSeq(ds, 1, Len(ds) - 1)) + DigitVal(ds[Len(ds)])

RECURSIVE StrOf(_)
\* str() of a natural number, as f"{n}" renders it (no padding)
StrOf(n) == IF n < 10 THEN <<DigitChar(n)>> ELSE StrOf(n \div 10) \o <<DigitChar(n % 10)>>

\* the characters Python's str.strip() / re's \s treat as white space
WhiteSpace == {" ", "\n", "\t"}

RECURSIVE LstripFrom(_, _)
LstripFrom(s, i) ==
    IF i > Len(s) THEN <<>>
    ELSE IF s[i] \in WhiteSpace THEN LstripFrom(s, i + 1)
         ELSE SubSeq(s, i, Len(s))

RECURSIVE RstripTo(_, _)
RstripTo(s, j) ==
    IF j < 1 THEN <<>>
    ELSE IF s[j] \in WhiteSpace THEN RstripTo(s, j - 1)
         ELSE SubSeq(s, 1, j)

\* str.lstrip(), str.rstrip(), str.strip()
Lstrip(s) == LstripFrom(s, 1)
Rstrip(s) == RstripTo(s, Len(s))

Strip(s) == Lstrip(Rstrip(s))

\* str.rfind(ch, lo, hi): the highest 0-based index i, lo <= i < hi, with s[i] = ch; -1 if none
Rfind(s, ch, lo, hi) ==
    LET top == IF hi < Len(s) THEN hi ELSE Len(s)
        hits == {i \in lo..(top - 1) : s[i + 1] = ch}
    IN IF hits = {} THEN -1 ELSE Max(hits)

-----------------------------------------------------------------------------
(* Month texts: _compute_next_month_text, _ym, _is_forward *)

\* re.match(r"(\d{4})<nen>(\d{1,2})<gatsu>", text):
\* the groups as integers, or <<>> when the text does not start with the pattern.
\* \d{1,2} is greedy: two digits are tried first, then one.
MonthMatch(t) ==
    IF /\ Len(t) >= 7
       /\ \A i \in 1..4 : t[i] \in Digits
       /\ t[5] = "nen"
       /\ t[6] \in Digits
    THEN IF Len(t) >= 8 /\ t[7] \in Digits /\ t[8] = "gatsu"
         THEN <<IntOf(SubSeq(t, 1, 4)), IntOf(SubSeq(t, 6, 7))>>
         ELSE IF t[7] = "gatsu"
              THEN <<IntOf(SubSeq(t, 1, 4)), IntOf(SubSeq(t, 6, 6))>>
              ELSE <<>>
    ELSE <<>>

\* f"{y}<nen>{mo}<gatsu>"
MonthText(y, mo) == StrOf(y) \o <<"nen">> \o StrOf(mo) \o <<"gatsu">>

_compute_next_month_text(prev) ==
    LET m == MonthMatch(prev)
    IN IF m = <<>> THEN <<>>
       ELSE IF m[2] = 12 THEN MonthText(m[1] + 1, 1)
            ELSE MonthText(m[1], m[2] + 1)

_ym(text) == IF text = NoText \/ text = <<>> THEN <<>> ELSE MonthMatch(text)

\* the rollover disjunct dropped: December -> January is refused
IsForwardNoRollover(prev, c) ==
    LET p == _ym(prev)
        q == _ym(c)
    IN IF p = <<>> \/ q = <<>> THEN FALSE
       ELSE q[1] = p[1] /\ q[2] = p[2] + 1

_is_forward(prev, c) ==
    LET p == _ym(prev)
        q == _ym(c)
    IN IF p = <<>> \/ q = <<>> THEN FALSE
       ELSE \/ (p[2] = 12 /\ q[1] = p[1] + 1 /\ q[2] = 1)
            \/ (q[1] = p[1] /\ q[2] = p[2] + 1)

-----------------------------------------------------------------------------
(* Statuses and the diff engine: IMPROVE_TRANSITIONS, compute_improved_days *)

Statuses == {"maru", "sankaku", "batsu", "mihantei"}

IMPROVE_TRANSITIONS ==
    { <<"batsu", "sankaku">>,
      <<"sankaku", "maru">>,
      <<"batsu", "maru">>,
      <<"mihantei", "sankaku">>,
      <<"mihantei", "maru">> }

\* \s*<nichi> from 1-based position j of t
DayRestOK(t, j) ==
    \E k \in j..Len(t) : t[k] = "nichi" /\ \A i \in j..(k - 1) : t[i] \in WhiteSpace

\* The pattern ([1-9]\d?|1\d|2\d|3[01])\s*<nichi> tried at 1-based position i:
\* the matched number, or 0 for no match.  The first alternative takes two digits
\* when it can and falls back to one; the other three alternatives match only
\* strings the first one matches with two digits, so they never add a match.
DayMatchAt(t, i) ==
    IF i > Len(t) \/ t[i] \notin (Digits \ {"0"}) THEN 0
    ELSE IF i + 1 <= Len(t) /\ t[i + 1] \in Digits /\ DayRestOK(t, i + 2)
         THEN 10 * DigitVal(t[i]) + DigitVal(t[i + 1])
         ELSE IF DayRestOK(t, i + 1) THEN DigitVal(t[i]) ELSE 0

RECURSIVE DaySearchFrom(_, _)
\* the scan of re.search from 1-based position i on
DaySearchFrom(t, i) ==
    IF i > Len(t) THEN 0
    ELSE LET m == DayMatchAt(t, i)
         IN IF m # 0 THEN m ELSE DaySearchFrom(t, i + 1)

\* re.search of the day pattern in t: int(m.group(1)) of the leftmost match, or 0 for None
DaySearch(t) == DaySearchFrom(t, 1)

RECURSIVE DayMapFrom(_, _, _)
\* the "for d in details" loop of compute_improved_days from its i-th entry, m
\* being the dict built so far: a later entry for a day number overwrites an
\* earlier one, an entry whose day text has no day number is skipped
DayMapFrom(ds, i, m) ==
    IF i > Len(ds) THEN m
    ELSE LET k == DaySearch(ds[i].day)
         IN DayMapFrom(ds, i + 1,
                IF k = 0 THEN m
                ELSE [x \in (DOMAIN m) \cup {k} |-> IF x = k THEN ds[i].status ELSE m[x]])

DayMap(ds) == DayMapFrom(ds, 1, <<>>)

RECURSIVE SortedSeq(_)
\* sorted() of a set of integers
SortedSeq(S) == IF S = {} THEN <<>> ELSE <<Min(S)>> \o SortedSeq(S \ {Min(S)})

\* the "prev_st is None: continue" test dropped: a first-seen day counts as unknown before
ImprovedDaysNoPrevCheck(prev_details, cur_details) ==
    LET prev_map == DayMap(prev_details)
        cur_map == DayMap(cur_details)
    IN SortedSeq({di \in DOMAIN cur_map :
          <<(IF di \in DOMAIN prev_map THEN prev_map[di] ELSE "mihantei"), cur_map[di]>>
              \in IMPROVE_TRANSITIONS})

compute_improved_days(prev_details, cur_details) ==
    LET prev_map == DayMap(prev_details)
        cur_map == DayMap(cur_details)
    IN SortedSeq({di \in DOMAIN cur_map :
          /\ di \in DOMAIN prev_map
          /\ <<prev_map[di], cur_map[di]>> \in IMPROVE_TRANSITIONS})

-----------------------------------------------------------------------------
(* Notification text: _split_content, _truncate_embed_description *)

DISCORD_CONTENT_LIMIT == 2000
DISCORD_EMBED_DESC_LIMIT == 4096

\* the fallback to the last space dropped: no newline means a hard cut
SplitCutNoSpace(c, limit) ==
    LET nl == Rfind(c, "\n", 0, limit)
    IN IF nl >= 0 THEN nl ELSE limit

\* the 0-based cut index one iteration of the while loop chooses for the text c
SplitCut(c, limit) ==
    LET nl == Rfind(c, "\n", 0, limit)
        sp == Rfind(c, " ", 0, limit)
    IN IF nl >= 0 THEN nl
       ELSE IF sp >= 0 THEN sp
            ELSE limit

RECURSIVE SplitLoop(_, _, _)
\* the while loop and the final append, from the locals (cur, out)
SplitLoop(c, o, limit) ==
    IF Len(c) > limit
    THEN LET cut == SplitCut(c, limit)
         IN SplitLoop(Lstrip(SubSeq(c, cut + 1, Len(c))),
                      Append(o, Rstrip(SubSeq(c, 1, cut))), limit)
    ELSE IF c # <<>> THEN Append(o, c) ELSE o

_split_content(s, limit) == SplitLoop(Strip(IF s = NoText THEN <<>> ELSE s), <<>>, limit)

\* the slice taken at the limit itself, without room for the ellipsis
TruncateNoRoom(desc) ==
    IF desc = NoText THEN <<>>
    ELSE IF Len(desc) <= DISCORD_EMBED_DESC_LIMIT THEN desc
         ELSE SubSeq(desc, 1, DISCORD_EMBED_DESC_LIMIT) \o <<".", ".", ".">>

_truncate_embed_description(desc) ==
    IF desc = NoText THEN <<>>
    ELSE IF Len(desc) <= DISCORD_EMBED_DESC_LIMIT THEN desc
         ELSE SubSeq(desc, 1, DISCORD_EMBED_DESC_LIMIT - 3) \o <<".", ".", ".">>

-----------------------------------------------------------------------------
(* Snapshot store: summaries_changed, rotate_snapshot_files *)

\* dict.get(k, default) on a dict modelled as a function
Get(d, k, default) == IF k \in DOMAIN d THEN d[k] ELSE default

\* the four keys in the order the loop of summaries_changed visits them
SummaryKeys == <<"maru", "sankaku", "batsu", "mihantei">>

summaries_changed(prev, c) ==
    IF prev = NoDict /\ c # NoDict THEN TRUE
    ELSE IF prev = NoDict /\ c = NoDict THEN FALSE
    ELSE \E i \in 1..Len(SummaryKeys) :
            Get(IF prev = NoDict THEN <<>> ELSE prev, SummaryKeys[i], 0)
                # Get(IF c = NoDict THEN <<>> ELSE c, SummaryKeys[i], 0)

(* A file of an output directory is a record
      [stem, stamp, ext, mtime]:
   calendar.html is [stem |-> "calendar", stamp |-> 0, ext |-> "html"],
   calendar_<ts>.png is [stem |-> "calendar", stamp |-> ts, ext |-> "png"],
   status_counts.json is [stem |-> "status_counts", stamp |-> 0, ext |-> "json"].
   A non-stamped file has stamp 0.  A directory is a set of files with
   distinct names. *)
FileName(f) == <<f.stem, f.stamp, f.ext>>

\* outdir.glob("calendar_*.<ext>")
GlobStamped(files, ext) ==
    {f \in files : f.stem = "calendar" /\ f.stamp # 0 /\ f.ext = ext}

RECURSIVE SortByMtime(_)
\* sorted(..., key=st_mtime); files of equal mtime are taken in stamp order
SortByMtime(fs) ==
    IF fs = {} THEN <<>>
    ELSE LET oldest == Min({f.mtime : f \in fs})
             first == CHOOSE f \in fs :
                         /\ f.mtime = oldest
                         /\ \A g \in fs : g.mtime = oldest => f.stamp <= g.stamp
         IN <<first>> \o SortByMtime(fs \ {first})

\* the files one of the two pruning passes unlinks
Pruned(files, ext, cap) ==
    LET ts == SortByMtime(GlobStamped(files, ext))
    IN IF Len(ts) > cap THEN {ts[i] : i \in 1..(Len(ts) - cap)} ELSE {}

\* one cap applied to both file sets
RotateOneCap(files, max_png, max_html) ==
    (files \ Pruned(files, "png", max_png)) \ Pruned(files, "html", max_png)

rotate_snapshot_files(files, max_png, max_html) ==
    (files \ Pruned(files, "png", max_png)) \ Pruned(files, "html", max_html)

\* the loop's variables while another specification runs
RunIdle ==
    /\ disk = [payload |-> NoDict, files |-> {}]
    /\ retention = [png |-> 50, html |-> 50]
    /\ rpc = "idle"
    /\ month_text = NoText
    /\ summary = NoDict
    /\ details = <<>>
    /\ prev_payload = NoDict
    /\ changed = FALSE
    /\ ts_pair = FALSE
    /\ time_lines = <<>>
    /\ calls = <<>>
    /\ saved_now = FALSE
    /\ saved_last = FALSE
    /\ owed_last = {}

PureIdle ==
    /\ fn = "none"
    /\ arg = None
    /\ res = None
    /\ cur = <<>>
    /\ out = <<>>
    /\ lastcut = NoDict

\* the summarizer's variables while another specification runs
CellsIdle ==
    /\ html_ok = TRUE
    /\ td = NoDict
    /\ td_out = NoDict
    /\ cell_count = 0
    /\ cell_summary = NoDict
    /\ cell_details = <<>>
    /\ spc = "idle"

\* the notification client's variables while another specification runs
NotifyIdle ==
    /\ menv = [uid |-> <<>>, use_everyone |-> FALSE, use_here |-> FALSE]
    /\ force_text = FALSE
    /\ hook_url = ""
    /\ agg_lines = <<>>
    /\ npc = "idle"
    /\ pages_left = 0
    /\ tries = 0
    /\ attempts = <<>>
    /\ payloads = <<>>
    /\ ok_all = TRUE
    /\ sent = "none"

\* the variables of the several-facility loop while another specification runs
LoopIdle ==
    /\ BASE_URL = None
    /\ facilities = <<>>
    /\ session = "none"
    /\ idx = 0
    /\ step = 0
    /\ lpc = "idle"
    /\ log = <<>>
    /\ written = {}
    /\ failed_step = <<>>
    /\ frozen = <<>>

\* the variables of safe_write_text while another specification runs
WriteIdle ==
    /\ dirfiles = <<>>
    /\ wpc = "idle"
    /\ new_doc = 0
    /\ prev_doc = 0
    /\ baseline = 0
    /\ writes = 0

\* the variables of the facility-return chain while another specification runs
NavIdle ==
    /\ facility_codes = <<>>
    /\ nav_idx = 0
    /\ nav_pc = "idle"
    /\ nav_steps = <<>>
    /\ nav_done = <<>>

\* the variables of the time-slot drill while another specification runs
SlotsIdle ==
    /\ rows = <<>>
    /\ reported = <<>>
    /\ day_docs = {}
    /\ prev_avail = {}
    /\ drills = 0

\* the variables of the drill while another specification runs
DrillIdle ==
    /\ drill_pc = "idle"
    /\ drill_log = <<>>

\* the variables of the last specifications while another one runs
LaterIdle == WriteIdle /\ NavIdle /\ SlotsIdle /\ DrillIdle

\* the variables of the specifications below, while an earlier one runs
ExtIdle == CellsIdle /\ NotifyIdle /\ LoopIdle /\ LaterIdle

-----------------------------------------------------------------------------
(* The monitoring-window gate, the configuration loader, main() and the
   prelude of run_monitor() *)

MONITOR_START_HOUR_DEFAULT == 5
MONITOR_END_HOUR_DEFAULT == 23

RequiredKeys == <<"facilities", "status_patterns", "css_class_patterns">>

\* jst_now().hour: [raised, hour].  Without pytz the naive local clock is read;
\* with it, pytz.timezone("Asia/Tokyo") either fails or gives the JST time.
jst_now ==
    IF pytz = "absent" THEN [raised |-> FALSE, hour |-> local_hour]
    ELSE IF pytz = "raises" THEN [raised |-> TRUE, hour |-> -1]
         ELSE [raised |-> FALSE, hour |-> jst_hour]

\* the upper bound taken exclusive
WindowEndExclusive(start_hour, end_hour) ==
    IF jst_now.raised THEN <<TRUE, -1>>
    ELSE <<start_hour <= jst_now.hour /\ jst_now.hour < end_hour, jst_now.hour>>

\* (within, now); an exception while reading the clock gives (True, None)
is_within_monitoring_window(start_hour, end_hour) ==
    IF jst_now.raised THEN <<TRUE, -1>>
    ELSE <<start_hour <= jst_now.hour /\ jst_now.hour <= end_hour, jst_now.hour>>

\* only the first required key is looked for
LoadConfigFirstKeyOnly(doc) ==
    IF RequiredKeys[1] \notin doc.keys THEN RequiredKeys[1] ELSE ""

\* load_config() on a document: the key the RuntimeError names, "" when it returns
load_config(doc) ==
    LET missing == {i \in 1..Len(RequiredKeys) : RequiredKeys[i] \notin doc.keys}
    IN IF missing = {} THEN "" ELSE RequiredKeys[Min(missing)]

\* the document CONFIG_PATH points at
ConfigDoc == IF CONFIG_PATH = "config.json" THEN config_json ELSE config_temp

\* cfg.get("facilities", [])
FacilitiesOf(doc) == IF "facilities" \in doc.keys THEN doc.facilities ELSE <<>>

\* main(), lines 1533-1539: the gate
Gate ==
    /\ mpc = "gate"
    /\ LET force == MONITOR_FORCE \/ args.force
           w == is_within_monitoring_window(MONITOR_START_HOUR, MONITOR_END_HOUR)
       IN /\ within' = w[1]
          /\ now' = w[2]
          /\ IF ~force /\ ~w[1]
             THEN mpc' = "exit_outside_window" /\ exit_code' = 0      \* sys.exit(0)
             ELSE mpc' = "main_load" /\ UNCHANGED exit_code
    /\ UNCHANGED <<NotMain, env, config_temp, CONFIG_PATH, error, loads, browser, posts>>

\* main(), lines 1541-1549: load_config() outside any try, then the facility filter
MainLoadConfig ==
    /\ mpc = "main_load"
    /\ LET bad == load_config(ConfigDoc)
           targets == SelectSeq(FacilitiesOf(ConfigDoc), LAMBDA f : f = args.facility)
       IN IF bad # ""
          THEN \* the RuntimeError leaves main(): the interpreter exits with status 1
               /\ mpc' = "exit_config_error"
               /\ exit_code' = 1
               /\ error' = bad
               /\ UNCHANGED <<loads, config_temp, CONFIG_PATH>>
          ELSE /\ loads' = loads + 1
               /\ error' = error
               /\ IF args.facility = ""
                  THEN mpc' = "run_monitor" /\ UNCHANGED <<exit_code, config_temp, CONFIG_PATH>>
                  ELSE IF targets = <<>>
                       THEN /\ mpc' = "exit_no_target"      \* sys.exit(0)
                            /\ exit_code' = 0
                            /\ UNCHANGED <<config_temp, CONFIG_PATH>>
                       ELSE /\ config_temp' = [ConfigDoc EXCEPT !.facilities = targets]
                            /\ CONFIG_PATH' = "config.temp.json"
                            /\ mpc' = "run_monitor"
                            /\ UNCHANGED exit_code
    /\ UNCHANGED <<NotMain, env, within, now, browser, posts>>

\* run_monitor(), lines 1381-1397: load_config() inside try, the empty-list
\* return, and the browser launch
RunMonitorPrelude ==
    /\ mpc = "run_monitor"
    /\ LET bad == load_config(ConfigDoc)
       IN IF bad # ""
          THEN \* logged, run_monitor returns, main returns
               /\ mpc' = "returned" /\ exit_code' = 0 /\ error' = bad
               /\ UNCHANGED <<loads, browser>>
          ELSE /\ loads' = loads + 1
               /\ error' = error
               /\ IF FacilitiesOf(ConfigDoc) = <<>>
                  THEN mpc' = "returned" /\ exit_code' = 0 /\ UNCHANGED browser
                  ELSE mpc' = "facility_loop" /\ browser' = browser + 1 /\ UNCHANGED exit_code
    /\ UNCHANGED <<NotMain, env, config_temp, CONFIG_PATH, within, now, posts>>

\* run_monitor(), lines 1399-1524, as main() sees it: the facility loop (the
\* specification Spec has its steps) makes some webhook requests or none, the
\* browser is closed and the process ends
FacilityLoop ==
    /\ mpc = "facility_loop"
    /\ \E n \in 0..1 : posts' = posts + n
    /\ mpc' = "returned"
    /\ exit_code' = 0
    /\ UNCHANGED <<NotMain, env, config_temp, CONFIG_PATH, within, now, error, loads, browser>>

NextMain ==
    \/ Gate
    \/ MainLoadConfig
    \/ RunMonitorPrelude
    \/ FacilityLoop

\* the configuration documents a run may find: any subset of the required
\* keys, and a facility list of zero, one or two facilities
ConfigDocs ==
    {[keys |-> ks, facilities |-> fs] :
        ks \in SUBSET Range(RequiredKeys),
        fs \in {<<>>, <<"A">>, <<"A", "B">>}}

Hours == 0..23

\* the windows the environment may set: the defaults, and office hours
Windows == {<<MONITOR_START_HOUR_DEFAULT, MONITOR_END_HOUR_DEFAULT>>, <<9, 17>>}

\* the state a process starts in
MainStart ==
    /\ MONITOR_FORCE \in BOOLEAN
    /\ \E w \in Windows : MONITOR_START_HOUR = w[1] /\ MONITOR_END_HOUR = w[2]
    /\ pytz \in {"ok", "raises", "absent"}
    /\ jst_hour \in Hours
    \* a process whose local zone is JST, or UTC (nine hours behind)
    /\ local_hour \in {jst_hour, (jst_hour + 15) % 24}
    /\ args \in [force : BOOLEAN, facility : {"", "A", "Z"}]
    /\ config_json \in {d \in ConfigDocs : "facilities" \in d.keys \/ d.facilities = <<>>}
    /\ config_temp = NoDict
    /\ CONFIG_PATH = "config.json"
    /\ mpc = "gate"
    /\ within = FALSE
    /\ now = -1
    /\ exit_code = -1
    /\ error = ""
    /\ loads = 0
    /\ browser = 0
    /\ posts = 0

\* the main variables while another specification runs
MainIdle ==
    /\ MONITOR_FORCE = FALSE
    /\ MONITOR_START_HOUR = MONITOR_START_HOUR_DEFAULT
    /\ MONITOR_END_HOUR = MONITOR_END_HOUR_DEFAULT
    /\ pytz = "ok"
    /\ jst_hour = 12
    /\ local_hour = 12
    /\ args = [force |-> FALSE, facility |-> ""]
    /\ config_json = [keys |-> Range(RequiredKeys), facilities |-> <<"A">>]
    /\ config_temp = NoDict
    /\ CONFIG_PATH = "config.json"
    /\ mpc = "facility_loop"
    /\ within = TRUE
    /\ now = 12
    /\ exit_code = -1
    /\ error = ""
    /\ loads = 2
    /\ browser = 1
    /\ posts = 0

InitMain == MainStart /\ PureIdle /\ RunIdle /\ ExtIdle

SpecMain == InitMain /\ [][NextMain]_vars

-----------------------------------------------------------------------------
(* SpecPure: the pure functions applied to bounded inputs *)

MaxDetails == 2      \* longest Day Detail list given to compute_improved_days
FirstYear == 2025    \* first year of the month texts given to _is_forward
NumYears == 2        \* number of consecutive years of month texts
MaxLen == 5          \* longest short text given to _split_content
MaxLimit == 3        \* largest small limit given to _split_content
MaxFiles == 3        \* most stamped files of one kind in a directory given to rotate
MaxCap == 2          \* largest retention cap given to rotate
LongLen == 5000      \* length of the long notification texts

\* "2<nichi>" and "12<nichi>": numeric order differs from text order
DayTexts == { <<"2", "nichi">>, <<"1", "2", "nichi">> }

DetailInputs == SeqsUpTo([day : DayTexts, status : Statuses], MaxDetails)

\* the (year, month) pairs whose canonical month texts are given to _is_forward
YearMonths == (FirstYear..(FirstYear + NumYears - 1)) \X (1..12)

ShortTexts == SeqsUpTo({"a", "b", " ", "\n"}, MaxLen)

\* a text of n characters with a newline at every pn-th place and a space at
\* every ps-th place (0: none), letters elsewhere
LongText(n, ps, pn) ==
    [i \in 1..n |-> IF pn > 0 /\ i % pn = 0 THEN "\n"
                    ELSE IF ps > 0 /\ i % ps = 0 THEN " "
                    ELSE IF i % 2 = 0 THEN "a" ELSE "b"]

SeparatorPeriods == {0, 10, 1500, DISCORD_CONTENT_LIMIT, DISCORD_CONTENT_LIMIT + 1}

LongTexts ==
    {LongText(n, ps, pn) :
        n \in {DISCORD_CONTENT_LIMIT, DISCORD_CONTENT_LIMIT + 1, LongLen},
        ps \in SeparatorPeriods, pn \in SeparatorPeriods}

DescriptionInputs ==
    {NoText} \cup
    {LongText(n, ps, 0) :
        n \in {0, 1, DISCORD_EMBED_DESC_LIMIT - 3, DISCORD_EMBED_DESC_LIMIT - 1,
               DISCORD_EMBED_DESC_LIMIT, DISCORD_EMBED_DESC_LIMIT + 1,
               DISCORD_EMBED_DESC_LIMIT + 3, LongLen},
        ps \in {0, 10}}

\* sets of stamped screenshots: distinct stamps, distinct modification times,
\* the two orders unrelated
StampedPngSets ==
    {fs \in SUBSET [stem : {"calendar"}, stamp : 1..MaxFiles, ext : {"png"}, mtime : 1..MaxFiles] :
        \A f, g \in fs : f # g => (f.stamp # g.stamp /\ f.mtime # g.mtime)}

\* sets of stamped HTML dumps, the newest stamp modified first
StampedHtmlSets ==
    {{[stem |-> "calendar", stamp |-> k, ext |-> "html", mtime |-> MaxFiles + 1 - k] : k \in ks} :
        ks \in SUBSET (1..MaxFiles)}

\* the non-stamped files a directory may hold
LatestFiles ==
    { [stem |-> "calendar", stamp |-> 0, ext |-> "html", mtime |-> 0],
      [stem |-> "calendar", stamp |-> 0, ext |-> "png", mtime |-> 0],
      [stem |-> "status_counts", stamp |-> 0, ext |-> "json", mtime |-> 0] }

\* the caller's previous details are read first (load_last_payload)
PickPrevDetails ==
    /\ fn = "none"
    /\ \E p \in DetailInputs : arg' = <<p>>
    /\ fn' = "compute_improved_days.call"
    /\ UNCHANGED <<res, cur, out, lastcut, NotPure>>

ApplyImprovedDays ==
    /\ fn = "compute_improved_days.call"
    /\ \E c \in DetailInputs :
          /\ arg' = <<arg[1], c>>
          /\ res' = compute_improved_days(arg[1], c)
    /\ fn' = "compute_improved_days"
    /\ UNCHANGED <<cur, out, lastcut, NotPure>>

ApplyIsForward ==
    /\ fn = "none"
    /\ \E p \in YearMonths, c \in YearMonths :
          /\ arg' = [prev |-> MonthText(p[1], p[2]), cur |-> MonthText(c[1], c[2]), p |-> p, c |-> c]
          /\ res' = [forward |-> _is_forward(arg'.prev, arg'.cur),
                     next |-> _compute_next_month_text(arg'.prev)]
    /\ fn' = "_is_forward"
    /\ UNCHANGED <<cur, out, lastcut, NotPure>>

\* _split_content: entry, cur = (s or "").strip()
SplitStart ==
    /\ fn = "none"
    /\ \E s \in ShortTexts \cup LongTexts \cup {NoText} :
       \E limit \in IF s \in ShortTexts THEN 1..MaxLimit ELSE {DISCORD_CONTENT_LIMIT} :
          /\ arg' = <<s, limit>>
          /\ cur' = Strip(IF s = NoText THEN <<>> ELSE s)
    /\ out' = <<>>
    /\ fn' = "_split_content"
    /\ UNCHANGED <<res, lastcut, NotPure>>

\* _split_content: one iteration of "while len(cur) > limit"
SplitStep ==
    /\ fn = "_split_content"
    /\ Len(cur) > arg[2]
    /\ LET cut == SplitCut(cur, arg[2])
       IN /\ out' = Append(out, Rstrip(SubSeq(cur, 1, cut)))
          /\ cur' = Lstrip(SubSeq(cur, cut + 1, Len(cur)))
          /\ lastcut' = [text |-> cur, cut |-> cut]
    /\ UNCHANGED <<fn, arg, res, NotPure>>

\* _split_content: loop exit, the final append and the return
SplitReturn ==
    /\ fn = "_split_content"
    /\ Len(cur) <= arg[2]
    /\ out' = IF cur # <<>> THEN Append(out, cur) ELSE out
    /\ res' = out'
    /\ fn' = "_split_content.return"
    /\ UNCHANGED <<arg, cur, lastcut, NotPure>>

ApplyTruncate ==
    /\ fn = "none"
    /\ \E d \in DescriptionInputs :
          /\ arg' = d
          /\ res' = _truncate_embed_description(d)
    /\ fn' = "_truncate_embed_description"
    /\ UNCHANGED <<cur, out, lastcut, NotPure>>

\* the directory rotate_snapshot_files is given
PickDirectory ==
    /\ fn = "none"
    /\ \E pngs \in StampedPngSets, htmls \in StampedHtmlSets, latest \in {{}, LatestFiles} :
          arg' = [files |-> pngs \cup htmls \cup latest]
    /\ fn' = "rotate_snapshot_files.call"
    /\ UNCHANGED <<res, cur, out, lastcut, NotPure>>

ApplyRotate ==
    /\ fn = "rotate_snapshot_files.call"
    /\ \E max_png \in 0..MaxCap, max_html \in 0..MaxCap :
          /\ arg' = [files |-> arg.files, max_png |-> max_png, max_html |-> max_html]
          /\ res' = rotate_snapshot_files(arg.files, max_png, max_html)
    /\ fn' = "rotate_snapshot_files"
    /\ UNCHANGED <<cur, out, lastcut, NotPure>>

NextPure ==
    \/ PickPrevDetails
    \/ ApplyImprovedDays
    \/ ApplyIsForward
    \/ SplitStart
    \/ SplitStep
    \/ SplitReturn
    \/ ApplyTruncate
    \/ PickDirectory
    \/ ApplyRotate

InitPure == PureIdle /\ MainIdle /\ RunIdle /\ ExtIdle

SpecPure == InitPure /\ [][NextPure]_vars

-----------------------------------------------------------------------------
(* Spec: the facility loop of run_monitor() over the output directory, run
   after run, for one facility whose month_shifts are [0]: the month the
   site shows first is the only one processed *)

NumDays == 2         \* day cells of the month's calendar

Days == 1..NumDays

\* the months the site may show when a run reaches the calendar
Months == {MonthText(2026, 1)}

\* the text of a day cell
DayText(d) == StrOf(d) \o <<"nichi">>

\* what the calendar may show: a status for every day cell
Observations == [Days -> Statuses]

\* summarize_vacancies(): the details, one per day cell
DetailsOf(obs) == [i \in Days |-> [day |-> DayText(i), status |-> obs[i]]]

\* summarize_vacancies(): the four counts
SummaryOf(ds) == [k \in Statuses |-> Cardinality({i \in DOMAIN ds : ds[i].status = k})]

\* (prev_payload or {}).get("details") or []
PrevDetails(payload) == IF payload = NoDict THEN <<>> ELSE payload.details

\* (prev_payload or {}).get("summary")
PrevSummary(payload) == IF payload = NoDict THEN NoDict ELSE payload.summary

\* the time stamp of a write: later than every file of the directory
Clock(files) == 1 + Max({0} \cup {f.mtime : f \in files})

\* safe_write_text / screenshot: the file is created or replaced
WriteFile(files, stem, stamp, ext, t) ==
    {f \in files : FileName(f) # <<stem, stamp, ext>>}
        \cup {[stem |-> stem, stamp |-> stamp, ext |-> ext, mtime |-> t]}

\* the stamped pair written whatever save_ts says
SaveAssetsAlwaysStamped(files, save_ts, fail) ==
    LET t == Clock(files)
        s1 == WriteFile(files, "calendar", 0, "html", t)
        s2 == WriteFile(s1, "calendar", 0, "png", t)
        s3 == WriteFile(s2, "calendar", t, "html", t)
        s4 == WriteFile(s3, "calendar", t, "png", t)
    IN IF fail = "latest_png" THEN [files |-> s1, raised |-> TRUE, ts |-> FALSE]
       ELSE IF fail = "ts_png" THEN [files |-> s3, raised |-> TRUE, ts |-> FALSE]
       ELSE [files |-> s4, raised |-> FALSE, ts |-> TRUE]

\* save_calendar_assets(cal_root, outdir, save_ts) on the files of outdir.
\* 'fail' names the screenshot that raises, if one does; [files, raised, ts]
save_calendar_assets(files, save_ts, fail) ==
    LET t == Clock(files)
        s1 == WriteFile(files, "calendar", 0, "html", t)
        s2 == WriteFile(s1, "calendar", 0, "png", t)
        s3 == WriteFile(s2, "calendar", t, "html", t)
        s4 == WriteFile(s3, "calendar", t, "png", t)
    IN IF fail = "latest_png" THEN [files |-> s1, raised |-> TRUE, ts |-> FALSE]
       ELSE IF ~save_ts THEN [files |-> s2, raised |-> FALSE, ts |-> FALSE]
       ELSE IF fail = "ts_png" THEN [files |-> s3, raised |-> TRUE, ts |-> FALSE]
       ELSE [files |-> s4, raised |-> FALSE, ts |-> TRUE]

\* the screenshot of save_calendar_assets that raises, if one does.  (A
\* stamped screenshot that raises leaves one more unpruned stamped HTML file
\* each time: the output directory then grows without bound.)
SaveFailures == {"none", "latest_png"}

\* Only the order of the time stamps matters to the program: they are
\* renumbered 1, 2, ... in their order when a step ends.
Renumber(files) ==
    LET times == {f.mtime : f \in files}
        rank(v) == Cardinality({u \in times : u <= v})
    IN {[f EXCEPT !.mtime = rank(f.mtime),
                  !.stamp = IF f.stamp = 0 THEN 0 ELSE rank(f.stamp)] : f \in files}

\* datetime.date(y, mo, d).weekday(): 0 = Monday
Weekday(y, mo, d) ==
    LET t == <<0, 3, 2, 5, 0, 3, 5, 1, 4, 6, 2, 4>>
        yy == IF mo < 3 THEN y - 1 ELSE y
        sunday0 == (yy + (yy \div 4) - (yy \div 100) + (yy \div 400) + t[mo] + d) % 7
    IN (sunday0 + 6) % 7

\* _weekday_jp: the names list, Monday first (written in English)
_weekday_jp(y, mo, d) ==
    <<"Mon", "Tue", "Wed", "Thu", "Fri", "Sat", "Sun">>[Weekday(y, mo, d) + 1]

\* _is_japanese_holiday: False without the library or with the flag off
\* ('lib' false), else the calendar's answer; of the modelled dates only New
\* Year's Day is a public holiday
_is_japanese_holiday(lib, y, mo, d) == lib /\ mo = 1 /\ d = 1

\* what goto_day_and_collect_time_ranges may come back with for one day:
\* no range, open ranges (sorted, distinct), or an exception
RangeLists == {<<>>, <<"09:00-12:00", "13:00-17:00">>}

DrillOutcomes ==
    {[raised |-> TRUE, ranges |-> <<>>]}
        \cup {[raised |-> FALSE, ranges |-> r] : r \in RangeLists}

\* a line even for a day with no open range
BuildLinesKeepEmpty(ym, improved, found, lib, i, acc) ==
    [raised |-> FALSE,
     lines |-> [k \in DOMAIN improved |->
                  [y |-> ym[1], mo |-> ym[2], d |-> improved[k],
                   wd |-> _weekday_jp(ym[1], ym[2], improved[k]),
                   holiday |-> _is_japanese_holiday(lib, ym[1], ym[2], improved[k]),
                   ranges |-> found[improved[k]].ranges]]]

RECURSIVE BuildLines(_, _, _, _, _, _)
\* the loop of build_time_increase_lines over the improved days.  A line
\* "<y>nen<mo>gatsu<d>nichi (<wd>[, holiday]) : <ranges>" is the record of
\* its parts
BuildLines(ym, improved, found, lib, i, acc) ==
    IF i > Len(improved) THEN [raised |-> FALSE, lines |-> acc]
    ELSE LET di == improved[i]
             f == found[di]
         IN IF f.raised THEN [raised |-> TRUE, lines |-> acc]
            ELSE IF f.ranges = <<>> THEN BuildLines(ym, improved, found, lib, i + 1, acc)
            ELSE BuildLines(ym, improved, found, lib, i + 1,
                     Append(acc, [y |-> ym[1], mo |-> ym[2], d |-> di,
                                  wd |-> _weekday_jp(ym[1], ym[2], di),
                                  holiday |-> _is_japanese_holiday(lib, ym[1], ym[2], di),
                                  ranges |-> f.ranges]))

\* build_time_increase_lines: [raised, lines].  'improved_days' is its local
\* of that name, compute_improved_days(prev_details, cur_details); 'found'
\* gives, for each improved day, what the drill-down comes back with
build_time_increase_lines(mt, improved_days, found, lib) ==
    LET ym == MonthMatch(mt)
    IN IF ym = <<>> THEN [raised |-> FALSE, lines |-> <<>>]
       ELSE BuildLines(ym, improved_days, found, lib, 1, <<>>)

\* every line is sent on, an empty list too
ShouldSendAlways(lines) == TRUE

\* run_monitor's "if time_lines:" before send_aggregate_lines
ShouldSend(lines) == lines # <<>>

\* send_aggregate_lines: the number of messages handed to the webhook client
send_aggregate_lines(webhook_url, lines) ==
    IF webhook_url = "" \/ lines = <<>> THEN 0 ELSE 1

\* the process ends: its locals are gone, the output directory stays
ProcessEnds ==
    /\ rpc' = "idle"
    /\ month_text' = NoText
    /\ summary' = NoDict
    /\ details' = <<>>
    /\ prev_payload' = NoDict
    /\ changed' = FALSE
    /\ ts_pair' = FALSE
    /\ time_lines' = <<>>
    /\ calls' = <<>>
    /\ saved_last' = saved_now
    /\ saved_now' = FALSE

\* run_monitor(), lines 1399-1429: a run begins, the browser is launched and
\* the facility's calendar is reached and its month text read, or the
\* navigation raises
BeginRun ==
    /\ rpc = "idle"
    /\ \E ok \in BOOLEAN, shown \in Months :
          IF ok THEN rpc' = "month_view" /\ month_text' = shown
                ELSE rpc' = "exception" /\ month_text' = NoText
    /\ UNCHANGED <<NotRun, disk, retention, summary, details,
                   prev_payload, changed, ts_pair, time_lines, calls, saved_now, saved_last,
                   owed_last>>

\* run_monitor(), lines 1430-1440: the summary and details, the previous
\* payload, the changed flag
Observe ==
    /\ rpc = "month_view"
    /\ \E obs \in Observations :
          /\ details' = DetailsOf(obs)
          /\ summary' = SummaryOf(DetailsOf(obs))
          /\ changed' = summaries_changed(PrevSummary(disk.payload),
                                          SummaryOf(DetailsOf(obs)))
    /\ prev_payload' = disk.payload
    /\ rpc' = "observed"
    /\ UNCHANGED <<NotRun, disk, retention, month_text, ts_pair,
                   time_lines, calls, saved_now, saved_last, owed_last>>

\* the snapshots are saved and rotated, the payload of the run before is left
\* in status_counts.json
SaveWithoutPersist ==
    /\ rpc = "observed"
    /\ \E fail \in SaveFailures :
          /\ LET saved == save_calendar_assets(disk.files, changed, fail)
                 kept == rotate_snapshot_files(saved.files, retention.png, retention.html)
                 payload == [month |-> month_text, summary |-> summary, details |-> details]
             IN IF saved.raised
                THEN /\ disk' = [disk EXCEPT !.files = Renumber(saved.files)]
                     /\ rpc' = "exception"
                     /\ UNCHANGED <<ts_pair, saved_now>>
                ELSE /\ disk' = [payload |-> disk.payload, files |-> Renumber(kept)]
                     /\ ts_pair' = saved.ts
                     /\ saved_now' = TRUE
                     /\ rpc' = "persisted"
    /\ UNCHANGED <<NotRun, retention, month_text,
                   summary, details, prev_payload, changed, time_lines, calls, saved_last,
                   owed_last>>

\* run_monitor(), lines 1441-1453: save_calendar_assets,
\* rotate_snapshot_files, and the payload written to status_counts.json
SaveAndPersist ==
    /\ rpc = "observed"
    /\ \E fail \in SaveFailures :
          /\ LET saved == save_calendar_assets(disk.files, changed, fail)
                 kept == rotate_snapshot_files(saved.files, retention.png, retention.html)
                 payload == [month |-> month_text, summary |-> summary, details |-> details]
             IN IF saved.raised
                THEN /\ disk' = [disk EXCEPT !.files = Renumber(saved.files)]
                     /\ rpc' = "exception"
                     /\ UNCHANGED <<ts_pair, saved_now>>
                ELSE /\ disk' = [payload |-> payload, files |-> Renumber(kept)]
                     /\ ts_pair' = saved.ts
                     /\ saved_now' = TRUE
                     /\ rpc' = "persisted"
    /\ UNCHANGED <<NotRun, retention, month_text,
                   summary, details, prev_payload, changed, time_lines, calls, saved_last,
                   owed_last>>

\* the module global DISCORD_WEBHOOK_URL, as the environment of the run's
\* process sets it: "" when it sets none
WebhookUrls == {"", "https://discord.example/api/webhooks/1"}

\* whether the holiday library is there and the holiday flag on: it makes a
\* difference only if one of the days is a public holiday
HolidayLibrary(mt, days) ==
    IF \E i \in DOMAIN days :
          _is_japanese_holiday(TRUE, MonthMatch(mt)[1], MonthMatch(mt)[2], days[i])
    THEN BOOLEAN ELSE {FALSE}

\* run_monitor(), lines 1458-1460: the lines of the improved days and, if
\* there are any, the call of send_aggregate_lines
Notify ==
    /\ rpc = "persisted"
    /\ LET improved_days == compute_improved_days(PrevDetails(prev_payload), details)
       IN \E found \in [Range(improved_days) -> DrillOutcomes],
             lib \in HolidayLibrary(month_text, improved_days) :
             LET built == build_time_increase_lines(month_text, improved_days, found, lib)
             IN IF built.raised
                THEN rpc' = "exception" /\ UNCHANGED <<time_lines, calls>>
                ELSE /\ time_lines' = built.lines
                     /\ IF ShouldSend(built.lines)
                        THEN \E DISCORD_WEBHOOK_URL \in WebhookUrls :
                                calls' = Append(calls,
                                           [month |-> month_text, lines |-> built.lines,
                                            sent |-> send_aggregate_lines(DISCORD_WEBHOOK_URL,
                                                                          built.lines)])
                        ELSE calls' = calls
                     /\ rpc' = "notified"
    /\ UNCHANGED <<NotRun, disk, retention, month_text,
                   summary, details, prev_payload, changed, ts_pair, saved_now, saved_last,
                   owed_last>>

\* run_monitor(), lines 1462-1466 and 1524: no month shift is configured, the
\* facility loop ends and the browser is closed
EndRun ==
    /\ rpc = "notified"
    /\ ProcessEnds
    /\ UNCHANGED <<NotRun, disk, retention, owed_last>>

\* run_monitor(), lines 1515-1524: the facility's exception handler; with it
\* the facility loop ends and the browser is closed
HandleException ==
    /\ rpc = "exception"
    /\ ProcessEnds
    /\ UNCHANGED <<NotRun, disk, retention, owed_last>>

Next ==
    \/ BeginRun
    \/ Observe
    \/ SaveAndPersist
    \/ Notify
    \/ EndRun
    \/ HandleException

\* an output directory no run has written to, and a configuration
Init ==
    /\ disk = [payload |-> NoDict, files |-> {}]
    /\ retention \in {[png |-> 1, html |-> MaxCap], [png |-> MaxCap, html |-> 1]}
    /\ rpc = "idle"
    /\ month_text = NoText
    /\ summary = NoDict
    /\ details = <<>>
    /\ prev_payload = NoDict
    /\ changed = FALSE
    /\ ts_pair = FALSE
    /\ time_lines = <<>>
    /\ calls = <<>>
    /\ saved_now = FALSE
    /\ saved_last = FALSE
    /\ owed_last = {}
    /\ PureIdle
    /\ MainIdle
    /\ ExtIdle

Spec == Init /\ [][Next]_vars

-----------------------------------------------------------------------------
(* SpecOwed: the runs of Spec, with the history of the improved days a run
   persisted and handed no message on for, kept for the run after it *)

\* the improved days of the payload this run wrote for which no message was
\* handed to the webhook: the drill-down raised or found no open range, or
\* send_aggregate_lines had no webhook to send to
OwedNow ==
    IF ~saved_now THEN {}
    ELSE Range(compute_improved_days(PrevDetails(prev_payload), details))
            \ UNION {{calls[i].lines[k].d : k \in DOMAIN calls[i].lines} :
                        i \in {j \in DOMAIN calls : calls[j].sent >= 1}}

\* EndRun, the run's owed days kept
EndRunOwed ==
    /\ rpc = "notified"
    /\ ProcessEnds
    /\ owed_last' = OwedNow
    /\ UNCHANGED <<NotRun, disk, retention>>

\* HandleException, the run's owed days kept
HandleExceptionOwed ==
    /\ rpc = "exception"
    /\ ProcessEnds
    /\ owed_last' = OwedNow
    /\ UNCHANGED <<NotRun, disk, retention>>

NextOwed ==
    \/ BeginRun
    \/ Observe
    \/ SaveAndPersist
    \/ Notify
    \/ EndRunOwed
    \/ HandleExceptionOwed

\* an output directory no run has written to; one stamped screenshot is kept
InitOwed ==
    /\ Init
    /\ retention.png = 1

SpecOwed == InitOwed /\ [][NextOwed]_vars

-----------------------------------------------------------------------------
(* The vacancy summarizer: _st_from_text_and_src, _status_from_class,
   _inner_text_like, _find_day_in_text, summarize_vacancies and its
   live-element fallback.

   Further characters of the source written as tokens:
      "large_maru" = U+25EF (large circle), "kanji_zero" = U+3007 (the
      ideographic circle), "fwsp" = U+3000 (full-width space).
   A cell's inner markup is a sequence of items: a character, a <br> tag, an
   <img> tag with its alt, title and src attributes, or another tag. *)

Ch(c) == [kind |-> "ch", c |-> c, alt |-> <<>>, title |-> <<>>, src |-> <<>>]
Br == [kind |-> "br", c |-> " ", alt |-> <<>>, title |-> <<>>, src |-> <<>>]
Img(alt, title, src) == [kind |-> "img", c |-> " ", alt |-> alt, title |-> title, src |-> src]
Markup(t) == [i \in DOMAIN t |-> Ch(t[i])]

\* the characters re's \s and str.strip() treat as white space in a str
UniSpace == WhiteSpace \cup {"fwsp"}

\* x in t, for strings
Contains(t, x) ==
    \E i \in 1..(Len(t) - Len(x) + 1) : SubSeq(t, i, i + Len(x) - 1) = x

\* str.lower() on the letters of the modelled texts
LowerChar(c) ==
    CASE c = "O" -> "o" [] c = "K" -> "k" [] c = "N" -> "n" [] c = "G" -> "g"
      [] OTHER -> c
Lower(t) == [i \in DOMAIN t |-> LowerChar(t[i])]

\* str.strip(), which also strips the full-width space
RECURSIVE UniLstrip(_)
UniLstrip(t) ==
    IF t # <<>> /\ Head(t) \in UniSpace THEN UniLstrip(Tail(t)) ELSE t
RECURSIVE UniRstrip(_)
UniRstrip(t) ==
    IF t # <<>> /\ t[Len(t)] \in UniSpace THEN UniRstrip(SubSeq(t, 1, Len(t) - 1)) ELSE t
UniStrip(t) == UniLstrip(UniRstrip(t))

RECURSIVE CollapseSpace(_)
\* re.sub(r"\s+", " ", s)
CollapseSpace(t) ==
    IF t = <<>> THEN <<>>
    ELSE IF Head(t) \in UniSpace
         THEN <<" ">> \o CollapseSpace(UniLstrip(t))
         ELSE <<Head(t)>> \o CollapseSpace(Tail(t))

\* _inner_text_like: <br> and every other tag become a space, runs of white
\* space become one space, the ends are stripped
_inner_text_like(inner) ==
    UniStrip(CollapseSpace([i \in DOMAIN inner |-> inner[i].c]))

\* el.inner_text() or "", stripped: the characters, a line break for <br>,
\* nothing for an image
InnerText(inner) ==
    UniStrip(Flatten([i \in DOMAIN inner |->
                        IF inner[i].kind = "ch" THEN <<inner[i].c>>
                        ELSE IF inner[i].kind = "br" THEN <<"\n">>
                        ELSE <<>>]))

\* the <img> tags of a cell, in document order
ImagesOf(inner) == SelectSeq(inner, LAMBDA it : it.kind = "img")

\* the literal glyphs _st_from_text_and_src looks for, in its order, and the
\* status each gives
StatusGlyphs == <<"maru", "large_maru", "sankaku", "batsu">>
GlyphStatus(ch) == IF ch = "large_maru" THEN "maru" ELSE ch

\* the status keys of a pattern table, in the order the code tries them
PatternKeys == <<"circle", "triangle", "cross">>
KeyStatus(k) ==
    CASE k = "circle" -> "maru" [] k = "triangle" -> "sankaku" [] k = "cross" -> "batsu"

\* _st_from_text_and_src(raw, patterns): a status, or None
_st_from_text_and_src(raw, patterns) ==
    IF raw = NoText THEN None
    ELSE LET txt == UniStrip(raw)
             n == Lower([i \in DOMAIN txt |-> IF txt[i] = "fwsp" THEN " " ELSE txt[i]])
             glyphs == {g \in DOMAIN StatusGlyphs : Contains(txt, <<StatusGlyphs[g]>>)}
             keys == {k \in DOMAIN PatternKeys :
                         \E kw \in patterns[PatternKeys[k]] : Contains(n, Lower(kw))}
         IN IF glyphs # {} THEN GlyphStatus(StatusGlyphs[Min(glyphs)])
            ELSE IF keys # {} THEN KeyStatus(PatternKeys[Min(keys)])
            ELSE None

\* _status_from_class(cls, css_class_patterns): the class text is lowered, the
\* keywords are not
_status_from_class(cls, css_class_patterns) ==
    IF cls = <<>> THEN None
    ELSE LET c == Lower(cls)
             keys == {k \in DOMAIN PatternKeys :
                         \E kw \in css_class_patterns[PatternKeys[k]] : Contains(c, kw)}
         IN IF keys # {} THEN KeyStatus(PatternKeys[Min(keys)]) ELSE None

RECURSIVE DayStartFrom(_, _, _)
\* the 1-based position of the leftmost match of the day pattern from i on, or
\* 0; 'anchored' is the pattern with a leading ^ under re.MULTILINE
DayStartFrom(t, i, anchored) ==
    IF i > Len(t) THEN 0
    ELSE IF DayMatchAt(t, i) # 0 /\ (~anchored \/ i = 1 \/ t[i - 1] = "\n") THEN i
         ELSE DayStartFrom(t, i + 1, anchored)

\* the match object of the day pattern in t: NoDict for None, else group(0)
\* (digits, white space, day sign) and group(1) (the digits)
DayMatch(t, anchored) ==
    LET i == DayStartFrom(t, 1, anchored)
    IN IF i = 0 THEN NoDict
       ELSE LET nd == IF DayMatchAt(t, i) >= 10 THEN 2 ELSE 1
                k == Min({j \in (i + nd)..Len(t) : t[j] = "nichi"})
            IN [g0 |-> SubSeq(t, i, k), g1 |-> SubSeq(t, i, i + nd - 1)]

\* _find_day_in_text: m.group(0), or None
_find_day_in_text(t) ==
    LET m == DayMatch(t, FALSE) IN IF m = NoDict THEN NoText ELSE m.g0

\* a + " " + b
Joined(a, b) == a \o <<" ">> \o b

\* summarize_vacancies, one cell: the day text, from the cell's text, else
\* its title and aria-label, else the first image whose alt and title hold one
MarkupDay(cell) ==
    LET imgs == ImagesOf(cell.inner)
        in_text == _find_day_in_text(_inner_text_like(cell.inner))
        in_attr == _find_day_in_text(Joined(cell.title, cell.aria))
        hits == {j \in DOMAIN imgs :
                    _find_day_in_text(Joined(imgs[j].alt, imgs[j].title)) # NoText}
    IN IF in_text # NoText THEN in_text
       ELSE IF in_attr # NoText THEN in_attr
       ELSE IF hits # {}
            THEN _find_day_in_text(Joined(imgs[Min(hits)].alt, imgs[Min(hits)].title))
            ELSE NoText

\* the class consulted before the images
MarkupStatusClassFirst(cell, config) ==
    LET imgs == ImagesOf(cell.inner)
        of_img(j) == _st_from_text_and_src(
                        Joined(Joined(imgs[j].alt, imgs[j].title), imgs[j].src),
                        config.status_patterns)
        in_text == _st_from_text_and_src(_inner_text_like(cell.inner), config.status_patterns)
        hits == {j \in DOMAIN imgs : of_img(j) # None}
        in_class == _status_from_class(cell.class, config.css_class_patterns)
    IN IF in_text # None THEN in_text
       ELSE IF in_class # None THEN in_class
       ELSE IF hits # {} THEN of_img(Min(hits))
       ELSE "mihantei"

\* summarize_vacancies, one cell: the status, from the cell's text, else the
\* first image whose alt, title and src give one, else the class, else unknown
MarkupStatus(cell, config) ==
    LET imgs == ImagesOf(cell.inner)
        of_img(j) == _st_from_text_and_src(
                        Joined(Joined(imgs[j].alt, imgs[j].title), imgs[j].src),
                        config.status_patterns)
        in_text == _st_from_text_and_src(_inner_text_like(cell.inner), config.status_patterns)
        hits == {j \in DOMAIN imgs : of_img(j) # None}
        in_class == _status_from_class(cell.class, config.css_class_patterns)
    IN IF in_text # None THEN in_text
       ELSE IF hits # {} THEN of_img(Min(hits))
       ELSE IF in_class # None THEN in_class
       ELSE "mihantei"

\* _summarize_vacancies_fallback, one cell: the day text, rebuilt from the
\* digits of a match at the start of a line of the first 40 characters of the
\* text, else of a match in the aria-label and title, else in an image
FallbackDay(cell) ==
    LET imgs == ImagesOf(cell.inner)
        txt == InnerText(cell.inner)
        head == SubSeq(txt, 1, IF Len(txt) < 40 THEN Len(txt) ELSE 40)
        in_text == DayMatch(head, TRUE)
        in_attr == DayMatch(Joined(cell.aria, cell.title), FALSE)
        hits == {j \in DOMAIN imgs :
                    DayMatch(Joined(imgs[j].alt, imgs[j].title), FALSE) # NoDict}
        m == IF in_text # NoDict THEN in_text
             ELSE IF in_attr # NoDict THEN in_attr
             ELSE IF hits # {}
                  THEN DayMatch(Joined(imgs[Min(hits)].alt, imgs[Min(hits)].title), FALSE)
                  ELSE NoDict
    IN IF m = NoDict THEN NoText ELSE m.g1 \o <<"nichi">>

\* _summarize_vacancies_fallback, one cell: the status, from the cell's text,
\* else the first image whose alt and title, or else src, give one, else the
\* cell's aria-label and title, else the class, else unknown
FallbackStatus(cell, config) ==
    LET imgs == ImagesOf(cell.inner)
        _st(raw) == _st_from_text_and_src(raw, config.status_patterns)
        of_img(j) == IF _st(Joined(imgs[j].alt, imgs[j].title)) # None
                     THEN _st(Joined(imgs[j].alt, imgs[j].title))
                     ELSE _st(imgs[j].src)
        in_text == _st(InnerText(cell.inner))
        hits == {j \in DOMAIN imgs : of_img(j) # None}
        in_attr == _st(Joined(cell.aria, cell.title))
        in_class == _status_from_class(cell.class, config.css_class_patterns)
    IN IF in_text # None THEN in_text
       ELSE IF hits # {} THEN of_img(Min(hits))
       ELSE IF in_attr # None THEN in_attr
       ELSE IF in_class # None THEN in_class
       ELSE "mihantei"

\* the configuration's keyword tables
CellConfig ==
    [status_patterns |-> [circle |-> {<<"O", "K">>},
                          triangle |-> {<<"f", "e", "w">>},
                          cross |-> {<<"n", "g">>}],
     css_class_patterns |-> [circle |-> {<<"o", "k">>},
                             triangle |-> {<<"t", "r">>},
                             cross |-> {<<"n", "g">>}]]

MaxCells == 2        \* cells of the calendar summarize_vacancies goes through

\* what a cell's text may show for its day
DayParts ==
    { <<>>, <<"5", "nichi">>, <<"7", " ", "nichi">>, <<"3", "1", "nichi">>,
      <<"3", "2", "nichi">>, <<"4", "5", "nichi">>, <<"1", "0", "0", "nichi">> }

\* what a cell's text may show for its status
StatusParts ==
    { <<>>, <<"maru">>, <<"large_maru">>, <<"kanji_zero">>, <<"sankaku">>, <<"batsu">>,
      <<"O", "K">>, <<"n", "g">>, <<"maru", "n", "g">>, <<"batsu", "o", "k">> }

\* the images a cell may hold
ImageLists ==
    { <<>>,
      <<Img(<<"n", "g">>, <<>>, <<>>)>>,
      <<Img(<<>>, <<>>, <<"o", "k">>)>>,
      <<Img(<<"9", "nichi">>, <<>>, <<>>)>>,
      <<Img(<<>>, <<>>, <<>>), Img(<<>>, <<"sankaku">>, <<>>)>> }

ClassTexts == { <<>>, <<"O", "K">>, <<"n", "g">> }
AriaTexts == { <<>>, <<"maru">>, <<"8", "nichi">> }

\* a cell: the day, a line break, the status, the images
Cell(day, st, imgs, cls, aria) ==
    [inner |-> Markup(day) \o <<Br>> \o Markup(st) \o imgs,
     class |-> cls, title |-> <<>>, aria |-> aria]

\* the cells a calendar may hold: without attributes or images, every day
\* text with no status and with a cross, and every status text on the 5th;
\* and every combination of images and attributes under three of the texts
Cells ==
    {Cell(day, st, <<>>, <<>>, <<>>) : day \in DayParts, st \in {<<>>, <<"batsu">>}}
    \cup
    {Cell(<<"5", "nichi">>, st, <<>>, <<>>, <<>>) : st \in StatusParts}
    \cup
    {Cell(w[1], w[2], imgs, cls, aria) :
        w \in { <<<<>>, <<>>>>, <<<<"5", "nichi">>, <<>>>>, <<<<"5", "nichi">>, <<"n", "g">>>> },
        imgs \in ImageLists, cls \in ClassTexts, aria \in AriaTexts}

\* summarize_vacancies up to the loop: evaluate returns the markup, or raises
\* and the fallback runs
StartSummarize ==
    /\ spc = "idle"
    /\ html_ok' \in BOOLEAN
    /\ cell_summary' = [k \in Statuses |-> 0]
    /\ cell_details' = <<>>
    /\ cell_count' = 0
    /\ spc' = "loop"
    /\ UNCHANGED <<td, td_out, NotCells>>

\* the day and the status each path gives each cell
MarkupResults ==
    [cell \in Cells |-> [day |-> MarkupDay(cell), status |-> MarkupStatus(cell, CellConfig)]]
FallbackResults ==
    [cell \in Cells |-> [day |-> FallbackDay(cell), status |-> FallbackStatus(cell, CellConfig)]]

\* the day and status the running path gives a cell
DayOf(cell) == IF html_ok THEN MarkupResults[cell].day ELSE FallbackResults[cell].day
StatusOf(cell) == IF html_ok THEN MarkupResults[cell].status ELSE FallbackResults[cell].status

\* one iteration of the loop over the cells: no day, 'continue'
SkipCell ==
    /\ spc = "loop"
    /\ cell_count < MaxCells
    /\ \E cell \in Cells :
          /\ DayOf(cell) = NoText
          /\ td' = cell
    /\ td_out' = NoDict
    /\ cell_count' = cell_count + 1
    /\ UNCHANGED <<html_ok, cell_summary, cell_details, spc, NotCells>>

\* one iteration of the loop over the cells: the cell is counted and its
\* Day Detail appended
CountCell ==
    /\ spc = "loop"
    /\ cell_count < MaxCells
    /\ \E cell \in Cells :
          LET day == DayOf(cell)
              st == StatusOf(cell)
          IN /\ day # NoText
             /\ td' = cell
             /\ td_out' = [day |-> day, status |-> st]
             /\ cell_summary' = [cell_summary EXCEPT ![st] = @ + 1]
             /\ cell_details' = Append(cell_details, [day |-> day, status |-> st])
    /\ cell_count' = cell_count + 1
    /\ UNCHANGED <<html_ok, spc, NotCells>>

\* return summary, details
ReturnSummary ==
    /\ spc = "loop"
    /\ spc' = "returned"
    /\ UNCHANGED <<html_ok, td, td_out, cell_count, cell_summary, cell_details, NotCells>>

NextCells ==
    \/ StartSummarize
    \/ SkipCell
    \/ CountCell
    \/ ReturnSummary

InitCells == CellsIdle /\ NotifyIdle /\ LoopIdle /\ LaterIdle /\ PureIdle /\ MainIdle /\ RunIdle

SpecCells == InitCells /\ [][NextCells]_vars

-----------------------------------------------------------------------------
(* The notification client: _build_mention_and_allowed,
   DiscordWebhookClient._post, send_embed, send_text, and
   send_aggregate_lines with the client behind it.  Delays are in tenths of
   a second. *)

max_tries == 3

\* the mention settings of the environment: DISCORD_MENTION_USER_ID
\* (stripped), DISCORD_USE_EVERYONE == "1", DISCORD_USE_HERE == "1"
MentionEnvs == [uid : {<<>>, <<"4", "2">>}, use_everyone : BOOLEAN, use_here : BOOLEAN]

\* _build_mention_and_allowed(): the mention text and the allowed_mentions
\* object (its "parse" list, and its "users" list, empty when the key is absent)
_build_mention_and_allowed(e) ==
    IF e.uid # <<>>
    THEN [mention |-> <<"<@">> \o e.uid \o <<">">>,
          allowed |-> [parse |-> {}, users |-> {e.uid}]]
    ELSE IF e.use_everyone
    THEN [mention |-> <<"@everyone">>, allowed |-> [parse |-> {"everyone"}, users |-> {}]]
    ELSE IF e.use_here
    THEN [mention |-> <<"@here">>, allowed |-> [parse |-> {}, users |-> {}]]
    ELSE [mention |-> <<>>, allowed |-> [parse |-> {}, users |-> {}]]

\* float(text): [raised, tenths]; a text that is not a decimal number raises
\* ValueError
FloatOf(t) ==
    LET dots == {i \in DOMAIN t : t[i] = "."}
        whole == IF dots = {} THEN t ELSE SubSeq(t, 1, Min(dots) - 1)
        frac == IF dots = {} THEN <<>> ELSE SubSeq(t, Min(dots) + 1, Len(t))
        ok == /\ Cardinality(dots) <= 1
              /\ whole \o frac # <<>>
              /\ \A i \in DOMAIN t : t[i] \in Digits \cup {"."}
    IN IF ~ok THEN [raised |-> TRUE, tenths |-> 0]
       ELSE [raised |-> FALSE,
             tenths |-> 10 * IntOf(whole) + (IF frac = <<>> THEN 0 ELSE DigitVal(frac[1]))]

\* what the server, or the network, answers to one request: a 2xx response
\* read from resp.status, an HTTPError with its code and its Retry-After
\* header (NoText when absent), or another exception
RetryAfterTexts == {NoText, <<"3">>, <<"0", ".", "2">>, <<"W", "e", "d">>}
Responses ==
    [kind : {"ok"}, code : {200, 204}, retry_after : {NoText}]
    \cup [kind : {"http_error"}, code : {400, 429}, retry_after : RetryAfterTexts]
    \cup [kind : {"exception"}, code : {-1}, retry_after : {NoText}]

\* a 429 retried however many attempts were made
PostIterationNoLimit(n, r) ==
    IF r.kind = "ok" THEN [then |-> "return", status |-> r.code, slept |-> 0]
    ELSE IF r.kind = "exception" THEN [then |-> "return", status |-> -1, slept |-> 0]
    ELSE IF r.code = 429
         THEN LET retry_after == FloatOf(IF r.retry_after = NoText THEN <<"1", ".", "0">>
                                         ELSE r.retry_after)
              IN IF retry_after.raised THEN [then |-> "raise", status |-> 0, slept |-> 0]
                 ELSE [then |-> "continue", status |-> 0,
                       slept |-> IF retry_after.tenths > 5 THEN retry_after.tenths ELSE 5]
         ELSE [then |-> "return", status |-> r.code, slept |-> 0]

\* one iteration of the "while True" of _post, n being 'tries' after its
\* increment and r the answer: return a status, sleep and continue, or let
\* the ValueError of float() out of the except clause
PostIteration(n, r) ==
    IF r.kind = "ok" THEN [then |-> "return", status |-> r.code, slept |-> 0]
    ELSE IF r.kind = "exception" THEN [then |-> "return", status |-> -1, slept |-> 0]
    ELSE IF r.code = 429 /\ n < max_tries
         THEN LET retry_after == FloatOf(IF r.retry_after = NoText THEN <<"1", ".", "0">>
                                         ELSE r.retry_after)
              IN IF retry_after.raised THEN [then |-> "raise", status |-> 0, slept |-> 0]
                 ELSE [then |-> "continue", status |-> 0,
                       slept |-> IF retry_after.tenths > 5 THEN retry_after.tenths ELSE 5]
         ELSE [then |-> "return", status |-> r.code, slept |-> 0]

MaxPages == 2        \* most pages _split_content makes of a message's text

\* a payload handed to _post: by send_embed or send_text, with the mention
\* its content starts with and its allowed_mentions; status is what _post
\* returned for it (0 while it has not)
NewPayload(e, via) ==
    LET ma == _build_mention_and_allowed(e)
    IN [via |-> via, mention |-> ma.mention, allowed |-> ma.allowed, status |-> 0]

\* a test that takes 200 alone for a delivery
DeliveredOn200(status) == status = 200

\* lines 907 and 922: status in (200, 204)
Delivered(status) == status \in {200, 204}

\* the client enters _post with a new payload
EnterPost(via) ==
    /\ payloads' = Append(payloads, NewPayload(menv, via))
    /\ tries' = 0
    /\ attempts' = <<>>
    /\ npc' = "post"

\* send_aggregate_lines: nothing to do without a URL or without lines; else
\* send_text when DISCORD_FORCE_TEXT is set, send_embed when it is not
SendAggregateLines ==
    /\ npc = "idle"
    /\ menv' \in MentionEnvs
    /\ force_text' \in BOOLEAN
    /\ hook_url' \in WebhookUrls
    /\ agg_lines' \in {<<>>, <<"line">>}
    /\ IF hook_url' = "" \/ agg_lines' = <<>>
       THEN /\ npc' = "returned"
            /\ UNCHANGED <<pages_left, tries, attempts, payloads>>
       ELSE IF force_text'
       THEN /\ pages_left' \in 1..MaxPages
            /\ payloads' = <<NewPayload(menv', "text")>>
            /\ npc' = "post"
            /\ UNCHANGED <<tries, attempts>>
       ELSE /\ payloads' = <<NewPayload(menv', "embed")>>
            /\ npc' = "post"
            /\ UNCHANGED <<pages_left, tries, attempts>>
    /\ UNCHANGED <<ok_all, sent, NotNotify>>

\* _post, one iteration: HTTP 429 with attempts left; sleep, then continue
PostRetry ==
    /\ npc = "post"
    /\ \E r \in Responses :
          LET o == PostIteration(tries + 1, r)
          IN /\ o.then = "continue"
             /\ attempts' = Append(attempts, [resp |-> r, slept |-> o.slept])
    /\ tries' = tries + 1
    /\ UNCHANGED <<menv, force_text, hook_url, agg_lines, npc, pages_left, payloads, ok_all, sent, NotNotify>>

\* _post, one iteration: HTTP 429 with attempts left and a Retry-After
\* header float() rejects; the ValueError leaves _post, send_embed or
\* send_text, and send_aggregate_lines
PostRaise ==
    /\ npc = "post"
    /\ \E r \in Responses :
          LET o == PostIteration(tries + 1, r)
          IN /\ o.then = "raise"
             /\ attempts' = Append(attempts, [resp |-> r, slept |-> 0])
    /\ tries' = tries + 1
    /\ npc' = "raised"
    /\ UNCHANGED <<menv, force_text, hook_url, agg_lines, pages_left, payloads, ok_all, sent, NotNotify>>

\* _post, one iteration: a status is returned to send_embed or send_text
PostReturn ==
    /\ npc = "post"
    /\ \E r \in Responses :
          LET o == PostIteration(tries + 1, r)
          IN /\ o.then = "return"
             /\ attempts' = Append(attempts, [resp |-> r, slept |-> 0])
             /\ payloads' = [payloads EXCEPT ![Len(payloads)].status = o.status]
    /\ tries' = tries + 1
    /\ npc' = "post_returned"
    /\ UNCHANGED <<menv, force_text, hook_url, agg_lines, pages_left, ok_all, sent, NotNotify>>

\* send_embed after _post: done on 200 or 204, else the text is sent by
\* send_text, page by page
EmbedReturns ==
    /\ npc = "post_returned"
    /\ payloads[Len(payloads)].via = "embed"
    /\ IF Delivered(payloads[Len(payloads)].status)
       THEN /\ npc' = "returned"
            /\ sent' = "True"
            /\ UNCHANGED <<pages_left, tries, attempts, payloads, ok_all>>
       ELSE /\ pages_left' \in 1..MaxPages
            /\ ok_all' = TRUE
            /\ EnterPost("text")
            /\ UNCHANGED sent
    /\ UNCHANGED <<menv, force_text, hook_url, agg_lines, NotNotify>>

\* send_text after _post: the result is logged, the next page is sent
TextPageReturns ==
    /\ npc = "post_returned"
    /\ payloads[Len(payloads)].via = "text"
    /\ pages_left' = pages_left - 1
    /\ ok_all' = (ok_all /\ Delivered(payloads[Len(payloads)].status))
    /\ IF pages_left = 1
       THEN /\ npc' = "returned"
            /\ sent' = IF ok_all' THEN "True" ELSE "False"
            /\ UNCHANGED <<tries, attempts, payloads>>
       ELSE EnterPost("text") /\ UNCHANGED sent
    /\ UNCHANGED <<menv, force_text, hook_url, agg_lines, NotNotify>>

NextNotify ==
    \/ SendAggregateLines
    \/ PostRetry
    \/ PostRaise
    \/ PostReturn
    \/ EmbedReturns
    \/ TextPageReturns

InitNotify == NotifyIdle /\ CellsIdle /\ LoopIdle /\ LaterIdle /\ PureIdle /\ MainIdle /\ RunIdle

SpecNotify == InitNotify /\ [][NextNotify]_vars

-----------------------------------------------------------------------------
(* SpecLoop: run_monitor() from the browser launch to its end, over several
   facilities and their month shifts.  The configuration has been loaded and
   names at least one facility.  Every browser or file call the code leaves
   unguarded either returns or raises. *)

\* the number of configured facilities
NumFacilities == 2

\* the month_shifts lists a facility may carry ([0, 1] is also the default)
MonthShiftLists == {<<>>, <<0, 1>>, <<2, 1>>, <<2>>}

\* lines 1463-1465: shifts = sorted(set(...)); 0 is put first when it is
\* missing (computed once for each list)
SortedShifts ==
    [month_shifts \in MonthShiftLists |->
        LET sorted == SortedSeq(Range(month_shifts))
        IN  IF 0 \in Range(sorted) THEN sorted ELSE <<0>> \o sorted]

\* a month loop that takes up the month of every step it navigates to
ShiftsUpToMax(facility) == 0..Max(Range(SortedShifts[facility.month_shifts]))

\* the local shifts of a facility, as a set
Shifts(facility) == Range(SortedShifts[facility.month_shifts])

\* line 1466: max_shift = max(shifts)
MaxShifts == [month_shifts \in MonthShiftLists |-> Max(Range(SortedShifts[month_shifts]))]

MaxShiftOf(facility) == MaxShifts[facility.month_shifts]

\* what one month goes through, in the order of lines 1424-1461 and 1484-1509:
\* summarize_vacancies; save_calendar_assets and rotate_snapshot_files; the
\* write of status_counts.json; build_time_increase_lines; send_aggregate_lines
MonthStages == <<"summarize", "snapshot", "payload", "drill", "notify">>

\* a month whose notification is left out (the steps of a month that raised
\* before its end are the first 'done' ones)
StagesDoneWithoutNotify(done) == SelectSeq(SubSeq(MonthStages, 1, done), LAMBDA op : op # "notify")

\* the steps of a month that went through 'done' of its statements
StagesDone(done) == SubSeq(MonthStages, 1, done)

Event(f, s, op) == [fac |-> f, shift |-> s, op |-> op]

\* the files of one facility
FilesOf(f) == {w \in written : w.fac = f}

\* the for statement of line 1399 takes the next facility, or the loop is over
NextFacility ==
    IF idx < Len(facilities)
    THEN idx' = idx + 1 /\ step' = 0 /\ lpc' = "facility"
    ELSE lpc' = "close" /\ UNCHANGED <<idx, step>>

\* lines 1467 and 1511-1512: the month loop goes on to the click of the next
\* step, or is over
NextStep(s) ==
    IF s < MaxShiftOf(facilities[idx])
    THEN lpc' = "click" /\ step' = s /\ UNCHANGED idx
    ELSE NextFacility

\* lines 1394-1399: the browser, its context and page are opened and the
\* facility loop takes the first facility
LaunchBrowser ==
    /\ lpc = "start"
    /\ session' = "open"
    /\ idx' = 1
    /\ step' = 0
    /\ lpc' = "facility"
    /\ UNCHANGED <<BASE_URL, facilities, log, written, failed_step, frozen, NotLoop>>

\* lines 1402-1421: the facility's month view is reached, or a call raises.
\* Without BASE_URL page.goto(None) raises for the first facility, and for a
\* later one back_to_facility_list finds no link on the page never loaded and
\* the full sequence with its page.goto(None) follows.
Navigate ==
    /\ lpc = "facility"
    /\ \E ok \in BOOLEAN :
        /\ ok => BASE_URL # None
        /\ lpc' = IF ok THEN "month" ELSE "handler"
    /\ log' = Append(log, Event(idx, 0, "navigate"))
    /\ UNCHANGED <<BASE_URL, facilities, session, idx, step, written, failed_step, frozen, NotLoop>>

\* lines 1424-1461 (the current month) and 1484-1509 (a later shift): the
\* month is summarized, its snapshots and payload are written, its improved
\* days are drilled into and notified; any of the calls may raise
ProcessMonth ==
    /\ lpc = "month"
    /\ \E done \in 0..Len(MonthStages) :
        LET steps == StagesDone(done)
            at(op) == Len(log) + CHOOSE i \in 1..Len(MonthStages) : MonthStages[i] = op
        IN  /\ log' = log \o [i \in 1..Len(steps) |-> Event(idx, step, steps[i])]
            /\ written' = written
                          \cup {[fac |-> idx, shift |-> step, file |-> op, at |-> at(op)] :
                                op \in {"snapshot", "payload"} \cap Range(SubSeq(MonthStages, 1, done))}
            /\ IF done = Len(MonthStages)
               THEN NextStep(step)
               ELSE lpc' = "handler" /\ UNCHANGED <<idx, step>>
    /\ UNCHANGED <<BASE_URL, facilities, session, failed_step, frozen, NotLoop>>

\* lines 1467-1482 and 1511-1512: click_next_month; when it returns False the
\* failure screenshot is taken and the month loop is left; when it returns
\* True the month text and calendar root of the new month are read
ClickNextMonth ==
    /\ lpc = "click"
    /\ \E r \in {"ok", "raised", "failed", "failed_and_raised"} :
        /\ log' = Append(log, Event(idx, step + 1, IF r \in {"ok", "raised"} THEN "click" ELSE "click_failed"))
        /\ IF r \in {"failed", "failed_and_raised"}
           THEN /\ failed_step' = [failed_step EXCEPT ![idx] = step + 1]
                /\ frozen' = [frozen EXCEPT ![idx] = FilesOf(idx)]
           ELSE UNCHANGED <<failed_step, frozen>>
        /\ CASE r = "ok" ->
                    IF step + 1 \in Shifts(facilities[idx])
                    THEN lpc' = "month" /\ step' = step + 1 /\ UNCHANGED idx
                    ELSE NextStep(step + 1)
             [] r = "failed" -> NextFacility
             [] OTHER -> lpc' = "handler" /\ UNCHANGED <<idx, step>>
    /\ UNCHANGED <<BASE_URL, facilities, session, written, NotLoop>>

\* lines 1515-1522: the facility's exception is handled: the debug directory is
\* made, a screenshot is tried, the page's markup is read and written, and the
\* loop continues; safe_mkdir, page.inner_html and safe_write_text are outside
\* any try, so the handler itself may raise, which ends run_monitor
ExceptionHandler ==
    /\ lpc = "handler"
    /\ log' = Append(log, Event(idx, step, "handler"))
    /\ \E ok \in BOOLEAN :
        IF ok
        THEN NextFacility /\ UNCHANGED session
        ELSE lpc' = "aborted" /\ session' = "closed" /\ UNCHANGED <<idx, step>>
    /\ UNCHANGED <<BASE_URL, facilities, written, failed_step, frozen, NotLoop>>

\* line 1524: after the last facility the browser is closed
CloseBrowser ==
    /\ lpc = "close"
    /\ session' = "closed"
    /\ lpc' = "done"
    /\ UNCHANGED <<BASE_URL, facilities, idx, step, log, written, failed_step, frozen, NotLoop>>

NextLoop ==
    \/ LaunchBrowser
    \/ Navigate
    \/ ProcessMonth
    \/ ClickNextMonth
    \/ ExceptionHandler
    \/ CloseBrowser

InitLoop ==
    /\ BASE_URL \in {None, "url"}
    /\ facilities \in [1..NumFacilities -> [month_shifts : MonthShiftLists]]
    /\ session = "none"
    /\ idx = 0
    /\ step = 0
    /\ lpc = "start"
    /\ log = <<>>
    /\ written = {}
    /\ failed_step = [i \in 1..NumFacilities |-> 0]
    /\ frozen = [i \in 1..NumFacilities |-> {}]
    /\ CellsIdle /\ NotifyIdle /\ LaterIdle /\ PureIdle /\ MainIdle /\ RunIdle

SpecLoop == InitLoop /\ [][NextLoop]_vars

-----------------------------------------------------------------------------
(* SpecWrite: safe_write_text() on the Status Payload file of one output
   directory, the process stopping at any point of it, and load_last_payload()
   of the run that follows.  A file is [doc, len]: the payload its text comes
   from and the number of pieces of that text it holds. *)

\* the number of pieces the text of a payload is written in
DocLen == 3

\* the number of different payloads
NumDocs == 2

\* the number of writes begun
MaxWrites == 3

\* outdir / "status_counts.json", as the path's name and its suffixes
PayloadPath == <<"status_counts", ".json">>

\* a write that goes to the target itself
WithSuffixUnchanged(p) == p

\* line 122: p.with_suffix(p.suffix + ".tmp")
WithTmpSuffix(p) == Append(p, ".tmp")

\* the paths a write of the payload touches
Paths == {PayloadPath, Append(PayloadPath, ".tmp")}

\* no file at a path
Absent == [doc |-> 0, len |-> 0]

\* json.loads of the text of a file: the document, or 0 when the text is not
\* a whole document and json.loads raises
JsonLoads(f) == IF f.len = DocLen THEN f.doc ELSE 0

\* load_last_payload(outdir): None (0) when the file does not exist or its
\* text does not parse
load_last_payload(files) ==
    IF files[PayloadPath] = Absent THEN 0 ELSE JsonLoads(files[PayloadPath])

\* lines 120-122: safe_write_text(p, s) is entered; the parent directory is
\* made and the temporary path is computed
BeginWrite ==
    /\ wpc \in {"idle", "loaded"}
    /\ writes < MaxWrites
    /\ writes' = writes + 1
    /\ new_doc' \in 1..NumDocs
    /\ prev_doc' = load_last_payload(dirfiles)
    /\ wpc' = "open"
    /\ UNCHANGED <<dirfiles, baseline, NotWrite>>

\* line 123, tmp.write_text: the file is opened for writing, which empties it
OpenTmp ==
    /\ wpc = "open"
    /\ dirfiles' = [dirfiles EXCEPT ![WithTmpSuffix(PayloadPath)] = [doc |-> new_doc, len |-> 0]]
    /\ wpc' = "writing"
    /\ UNCHANGED <<new_doc, prev_doc, baseline, writes, NotWrite>>

\* line 123, tmp.write_text: one more piece of the text reaches the file; after
\* the last one the file is closed
WritePiece ==
    /\ wpc = "writing"
    /\ LET tmp == WithTmpSuffix(PayloadPath)
       IN  /\ dirfiles' = [dirfiles EXCEPT ![tmp].len = @ + 1]
           /\ wpc' = IF dirfiles[tmp].len + 1 = DocLen THEN "closed" ELSE "writing"
    /\ UNCHANGED <<new_doc, prev_doc, baseline, writes, NotWrite>>

\* line 124, tmp.replace(p): the temporary file takes the place of the target
\* in one step of the file system
Replace ==
    /\ wpc = "closed"
    /\ LET tmp == WithTmpSuffix(PayloadPath)
       IN  dirfiles' = IF tmp = PayloadPath
                 THEN dirfiles
                 ELSE [dirfiles EXCEPT ![PayloadPath] = dirfiles[tmp], ![tmp] = Absent]
    /\ wpc' = "idle"
    /\ UNCHANGED <<new_doc, prev_doc, baseline, writes, NotWrite>>

\* the process stops between two steps of the write
ProcessStops ==
    /\ wpc \in {"open", "writing", "closed"}
    /\ wpc' = "stopped"
    /\ UNCHANGED <<dirfiles, new_doc, prev_doc, baseline, writes, NotWrite>>

\* lines 1437 and 716-722: the run that follows reads its baseline
NextRunLoads ==
    /\ wpc \in {"idle", "stopped"}
    /\ baseline' = load_last_payload(dirfiles)
    /\ wpc' = "loaded"
    /\ UNCHANGED <<dirfiles, new_doc, prev_doc, writes, NotWrite>>

NextWrite ==
    \/ BeginWrite
    \/ OpenTmp
    \/ WritePiece
    \/ Replace
    \/ ProcessStops
    \/ NextRunLoads

InitWrite ==
    /\ dirfiles = [p \in Paths |-> Absent]
    /\ wpc = "idle"
    /\ new_doc = 0
    /\ prev_doc = 0
    /\ baseline = 0
    /\ writes = 0
    /\ NavIdle /\ SlotsIdle /\ DrillIdle
    /\ CellsIdle /\ NotifyIdle /\ LoopIdle /\ PureIdle /\ MainIdle /\ RunIdle

SpecWrite == InitWrite /\ [][NextWrite]_vars

-----------------------------------------------------------------------------
(* SpecNav: lines 1406-1421 of run_monitor(), the way to each facility after
   the first one: back_to_facility_list, select_facility_by_code, the steps
   after the selection, and navigate_to_facility.  Every call the code leaves
   outside a try either returns or raises. *)

\* the number of facilities after the first one
NumLater == 3

\* one step of the chain and how it ended: "true", "false" or "raised"
NavStep(name, result) == [step |-> name, result |-> result]

\* the facility is reached or given up (the exception goes to the handler of
\* line 1515) and the loop takes the next facility
NavEnds(steps, fate) ==
    /\ nav_done' = Append(nav_done, [steps |-> steps, fate |-> fate])
    /\ nav_steps' = <<>>
    /\ nav_idx' = nav_idx + 1
    /\ nav_pc' = IF nav_idx < NumLater + 1 THEN "back" ELSE "end"

\* lines 1406 and 971-1012: back_to_facility_list returns True at the list,
\* returns False (no back control, a failed click, or no list after the click
\* and the evidence written), or raises in its unguarded evidence capture of
\* lines 1009-1011
BackToFacilityList ==
    /\ nav_pc = "back"
    /\ \E result \in {"true", "false", "raised"} :
        LET steps == Append(nav_steps, NavStep("back", result))
        IN  CASE result = "true" ->
                    nav_steps' = steps /\ nav_pc' = "select" /\ UNCHANGED <<nav_idx, nav_done>>
              [] result = "false" ->
                    nav_steps' = steps /\ nav_pc' = "reentry" /\ UNCHANGED <<nav_idx, nav_done>>
              [] OTHER -> NavEnds(steps, "abandoned")
    /\ UNCHANGED <<facility_codes, NotNav>>

\* lines 1412-1417 and 1014-1041: select_facility_by_code returns False at
\* once for an empty code, returns True after a click, returns False after
\* its evidence was written, or raises in that unguarded capture (lines
\* 1038-1040)
SelectFacilityByCode ==
    /\ nav_pc = "select"
    /\ \E result \in {"true", "false", "raised"} :
        /\ ~facility_codes[nav_idx] => result = "false"
        /\ LET steps == Append(nav_steps, NavStep("select", result))
           IN  CASE result = "true" ->
                       nav_steps' = steps /\ nav_pc' = "post" /\ UNCHANGED <<nav_idx, nav_done>>
                 [] result = "false" ->
                       nav_steps' = steps /\ nav_pc' = "reentry" /\ UNCHANGED <<nav_idx, nav_done>>
                 [] OTHER -> NavEnds(steps, "abandoned")
    /\ UNCHANGED <<facility_codes, NotNav>>

\* lines 1419-1421: after a selection that returned True the post-steps are
\* applied and the calendar is awaited; a call of theirs may raise
PostSelection ==
    /\ nav_pc = "post"
    /\ \E result \in {"true", "raised"} :
        NavEnds(Append(nav_steps, NavStep("post", result)),
                IF result = "true" THEN "ready" ELSE "abandoned")
    /\ UNCHANGED <<facility_codes, NotNav>>

\* lines 1410 and 1417: navigate_to_facility, the full sequence from BASE_URL
NavigateToFacility ==
    /\ nav_pc = "reentry"
    /\ \E result \in {"true", "raised"} :
        NavEnds(Append(nav_steps, NavStep("reentry", result)),
                IF result = "true" THEN "ready" ELSE "abandoned")
    /\ UNCHANGED <<facility_codes, NotNav>>

NextNav ==
    \/ BackToFacilityList
    \/ SelectFacilityByCode
    \/ PostSelection
    \/ NavigateToFacility

InitNav ==
    /\ facility_codes \in [2..(NumLater + 1) -> BOOLEAN]
    /\ nav_idx = 2
    /\ nav_pc = "back"
    /\ nav_steps = <<>>
    /\ nav_done = <<>>
    /\ WriteIdle /\ SlotsIdle /\ DrillIdle
    /\ CellsIdle /\ NotifyIdle /\ LoopIdle /\ PureIdle /\ MainIdle /\ RunIdle

SpecNav == InitNav /\ [][NextNav]_vars

-----------------------------------------------------------------------------
(* SpecClick: one pass of the month loop of run_monitor(), lines 1467-1481:
   click_next_month() and, when it returned True, the reading of the month
   text the month of that step is captured under.  The page shows a month
   text or none the pattern of get_current_year_month_text finds, and each
   reading of it returns what is shown, or None when the reading raises. *)

\* the largest step of the month loop
MaxStep == 2

\* the fallback of line 1426 for a month text that cannot be read
UnknownText == <<"u", "n", "k", "n", "o", "w", "n">>

\* line 1478: f"shift_{step}"
ShiftText(k) == <<"s", "h", "i", "f", "t", "_">> \o StrOf(k)

\* what the page may show: no month text, or the text of a month
ShownTexts == {NoText} \cup {MonthText(ym[1], ym[2]) : ym \in YearMonths}

\* what one reading of the page returns (lines 347-379)
Readings(shown) == {NoText, shown}

\* a key with no fallback: what the reading returned, None too
MonthKeyAsRead(seen, fallback) == seen

\* lines 1426 and 1478: get_current_year_month_text(page) or <fallback>
MonthKey(seen, fallback) == IF seen = NoText \/ seen = <<>> THEN fallback ELSE seen

\* the characters facility_month_dir replaces (line 711): \ / : * ? " < > and
\* the line feed
UnsafeChars == {"\\", "/", ":", "*", "?", "dquote", "<", ">", "LF"}

\* re.sub(r"[...]+", "_", t): every run of unsafe characters becomes one "_"
RECURSIVE SafeName(_)
SafeName(t) ==
    IF t = <<>> THEN <<>>
    ELSE IF Head(t) \notin UnsafeChars THEN <<Head(t)>> \o SafeName(Tail(t))
    ELSE IF Len(t) >= 2 /\ t[2] \in UnsafeChars THEN SafeName(Tail(t))
    ELSE <<"_">> \o SafeName(Tail(t))

\* facility_month_dir (lines 709-714): the name of the month's directory
facility_month_dir(mt) ==
    SafeName(IF mt = NoText \/ mt = <<>>
             THEN <<"u", "n", "k", "n", "o", "w", "n", "_", "m", "o", "n", "t", "h">>
             ELSE mt)

\* click_next_month without the direction check of lines 507-513
ClickNextMonthUnconfirmed(on_month_view, clicked, prev_month_text, seen) ==
    on_month_view /\ clicked

\* click_next_month (lines 450-514) as a function of what it meets: whether
\* the page is the month view (line 460), whether a link was clicked (lines
\* 464-495), and the month text it reads afterwards (line 509), None when
\* there is none or the reading raised
click_next_month(on_month_view, clicked, prev_month_text, seen) ==
    IF ~on_month_view THEN FALSE
    ELSE IF ~clicked THEN FALSE
    ELSE IF prev_month_text # <<>> /\ seen # NoText /\ ~_is_forward(prev_month_text, seen)
         THEN FALSE
         ELSE TRUE

\* lines 1468-1470: click_next_month is called with the month text of the
\* step before
ClickAndConfirm ==
    /\ fn = "none"
    /\ \E k \in 1..MaxStep, prev \in (ShownTexts \ {NoText}) \cup {UnknownText, ShiftText(1)},
          shown \in ShownTexts, on_month_view \in BOOLEAN, clicked \in BOOLEAN :
        \E seen \in Readings(shown) :
            /\ arg' = [step |-> k, prev_month_text |-> prev, shown |-> shown,
                       on_month_view |-> on_month_view, clicked |-> clicked, seen |-> seen]
            /\ res' = [ok |-> click_next_month(on_month_view, clicked, prev, seen)]
    /\ fn' = "click_next_month"
    /\ UNCHANGED <<cur, out, lastcut, NotPure>>

\* lines 1471-1481: after False the month loop is left; after True the month
\* text is read again, f"shift_{step}" standing in for None, and names the
\* directory of the month
ReadMonthOfStep ==
    /\ fn = "click_next_month"
    /\ IF res.ok
       THEN \E again \in Readings(arg.shown) :
               LET month_text2 == MonthKey(again, ShiftText(arg.step))
               IN  res' = [ok |-> TRUE, captured |-> TRUE, month_text2 |-> month_text2,
                           outdir2 |-> facility_month_dir(month_text2)]
       ELSE res' = [ok |-> FALSE, captured |-> FALSE, month_text2 |-> NoText,
                    outdir2 |-> NoText]
    /\ fn' = "run_monitor"
    /\ UNCHANGED <<arg, cur, out, lastcut, NotPure>>

\* lines 1425-1428: the month text of the current month is read, "unknown"
\* standing in for None, and names the directory of the month
ReadCurrentMonth ==
    /\ fn = "none"
    /\ \E shown \in ShownTexts :
        \E seen \in Readings(shown) :
            LET mt == MonthKey(seen, UnknownText)
            IN  /\ arg' = [step |-> 0, shown |-> shown, seen |-> seen]
                /\ res' = [month_text |-> mt, outdir |-> facility_month_dir(mt)]
    /\ fn' = "run_monitor.current"
    /\ UNCHANGED <<cur, out, lastcut, NotPure>>

NextClick ==
    \/ ClickAndConfirm
    \/ ReadMonthOfStep
    \/ ReadCurrentMonth

SpecClick == InitPure /\ [][NextClick]_vars

-----------------------------------------------------------------------------
(* SpecSlots: build_time_increase_lines() and
   goto_day_and_collect_time_ranges() for one day of one month that is an
   improved day in each of several consecutive runs.  The rows of the
   time-band table are numbered by the hour their range starts at. *)

\* the number of rows of the time-band table
NumRows == 3

\* the number of runs that drill into the day
MaxDrills == 3

\* the start hours of the ranges the row labels map to (map_time_label)
RowRange(r) == 9 + 4 * (r - 1)

\* lines 1309-1322: the ranges of the rows whose cell of the day's column is
\* "aki" (available), in row order
ScanRows(table) ==
    LET RECURSIVE scan(_)
        scan(r) == IF r > Len(table) THEN <<>>
                   ELSE IF table[r] = "aki" THEN <<RowRange(r)>> \o scan(r + 1)
                   ELSE scan(r + 1)
    IN scan(1)

\* lines 1326-1329: uniq = sorted(set(time_ranges), key=_sortkey_time_range)
CollectTimeRanges(table) == SortedSeq(Range(ScanRows(table)))

\* lines 1365-1374: a run drills into the improved day and makes its line of
\* all the ranges that came back; nothing but the line is made of them
DrillAndReport ==
    /\ drills < MaxDrills
    /\ \E table \in [1..NumRows -> {"aki", "yoyaku"}] :
        /\ rows' = table
        /\ reported' = CollectTimeRanges(table)
    /\ prev_avail' = IF drills = 0 THEN {} ELSE Range(CollectTimeRanges(rows))
    /\ drills' = drills + 1
    /\ UNCHANGED <<day_docs, NotSlots>>

NextSlots ==
    \/ DrillAndReport

InitSlots ==
    /\ rows = [r \in 1..NumRows |-> "yoyaku"]
    /\ reported = <<>>
    /\ day_docs = {}
    /\ prev_avail = {}
    /\ drills = 0
    /\ WriteIdle /\ NavIdle /\ DrillIdle
    /\ CellsIdle /\ NotifyIdle /\ LoopIdle /\ PureIdle /\ MainIdle /\ RunIdle

SpecSlots == InitSlots /\ [][NextSlots]_vars

-----------------------------------------------------------------------------
(* SpecDrill: the loop of build_time_increase_lines() over the improved days
   of one month, one call of goto_day_and_collect_time_ranges() for each, with
   _click_back_to_month().  Every call the code leaves outside a try either
   returns or raises. *)

\* the number of improved days of the month
NumImproved == 2

\* the ways through goto_day_and_collect_time_ranges (lines 1268-1329):
\*   no_anchor       line 1274: the day cell is not found
\*   click_failed    line 1280: the click of the day cell raises
\*   pause_raised    line 1282: the click is done and grace_pause raises
\*                   (its first wait, line 158, is outside its try)
\*   wait_raised     line 1287: the wait between two looks at the header
\*                   (line 1233, outside the try) raises
\*   no_header       line 1287: the header of the day is never detected
\*   no_column       line 1300: the column of the day is not found
\*   scan_raised     line 1323: an exception during the row scan
\*   normal          the rows are scanned
DrillPaths ==
    {"no_anchor", "click_failed", "pause_raised", "wait_raised", "no_header", "no_column",
     "scan_raised", "normal"}

\* whether _click_back_to_month is called on a way through the function
\* (lines 1289, 1302 and 1326)
BackIsCalled(path) == path \in {"no_header", "no_column", "scan_raised", "normal"}

\* _click_back_to_month (lines 1236-1266): "clicked" (True), "not_clicked"
\* (no control could be clicked, the evidence is written, False), or "raised"
\* (the evidence capture of lines 1256-1258, outside any try, raises)
BackOutcomes == {"clicked", "not_clicked", "raised"}

\* lines 1365-1368: the loop takes the next improved day and calls
\* goto_day_and_collect_time_ranges for it; an exception leaves the loop and
\* build_time_increase_lines
DrillIntoDay ==
    /\ drill_pc = "loop"
    /\ \E path \in DrillPaths :
        \E back \in IF BackIsCalled(path) THEN BackOutcomes ELSE {"none"} :
            /\ drill_log' = Append(drill_log, [path |-> path, back |-> back])
            /\ drill_pc' = IF back = "raised" \/ path = "wait_raised" THEN "raised"
                           ELSE IF Len(drill_log) + 1 = NumImproved THEN "returned"
                           ELSE "loop"
    /\ UNCHANGED NotDrill

NextDrill ==
    \/ DrillIntoDay

InitDrill ==
    /\ drill_pc = "loop"
    /\ drill_log = <<>>
    /\ WriteIdle /\ NavIdle /\ SlotsIdle
    /\ CellsIdle /\ NotifyIdle /\ LoopIdle /\ PureIdle /\ MainIdle /\ RunIdle

SpecDrill == InitDrill /\ [][NextDrill]_vars

-----------------------------------------------------------------------------
(* Claims on the pure functions, checked under SpecPure *)

\* the day numbers a Day Detail list mentions, and the status its map gives a day
DaysOf(ds) == {DaySearch(ds[i].day) : i \in DOMAIN ds} \ {0}
StatusOn(ds, d) ==
    ds[Max({i \in DOMAIN ds : DaySearch(ds[i].day) = d})].status

\* C1: compute_improved_days returns, in ascending order and without repeats,
\* exactly the days present in both the previous and the current day->status map
\* whose (previous, current) pair is one of (batsu,sankaku), (sankaku,maru),
\* (batsu,maru), (mihantei,sankaku), (mihantei,maru); a regression is never
\* returned and neither is a day absent from the previous map.
C1_ImprovedDaysExact ==
    fn = "compute_improved_days" =>
        LET pdays == DaysOf(arg[1])
            cdays == DaysOf(arg[2])
            pst == [d \in pdays |-> StatusOn(arg[1], d)]
            cst == [d \in cdays |-> StatusOn(arg[2], d)]
            expected ==
                {d \in pdays \cap cdays :
                    <<pst[d], cst[d]>> \in
                        { <<"batsu", "sankaku">>, <<"sankaku", "maru">>, <<"batsu", "maru">>,
                          <<"mihantei", "sankaku">>, <<"mihantei", "maru">> }}
        IN /\ Range(res) = expected
           /\ \A i, j \in DOMAIN res : i < j => res[i] < res[j]
           /\ \A d \in Range(res) : d \in pdays /\ <<pst[d], cst[d]>> # <<"maru", "sankaku">>

\* two improved days, listed in the current details in descending order
C1_Witness ==
    /\ fn = "compute_improved_days"
    /\ res = <<2, 12>>
    /\ Len(arg[2]) = 2
    /\ arg[2][1].day = <<"1", "2", "nichi">>

\* C6: for canonical month texts, _is_forward(prev, cur) accepts exactly when cur
\* is the month after prev (year y month 12 -> year y+1 month 1, otherwise
\* month + 1), which is the text _compute_next_month_text(prev) renders.
C6_ForwardIffNextMonth ==
    fn = "_is_forward" =>
        LET nxt == IF arg.p[2] = 12 THEN <<arg.p[1] + 1, 1>> ELSE <<arg.p[1], arg.p[2] + 1>>
        IN /\ res.forward <=> (arg.c = nxt)
           /\ res.next = MonthText(nxt[1], nxt[2])
           /\ res.forward <=> (arg.cur = res.next)

\* the December -> January rollover is accepted
C6_Witness ==
    /\ fn = "_is_forward"
    /\ arg.p = <<2025, 12>>
    /\ arg.c = <<2026, 1>>
    /\ res.forward
    /\ res.next = <<"2", "0", "2", "6", "nen", "1", "gatsu">>

NonWs(s) == SelectSeq(s, LAMBDA ch : ch \notin WhiteSpace)

\* a cut of the text t after its first k characters separates two characters
\* of one word
CutInsideWord(t, k) ==
    /\ 1 <= k
    /\ k < Len(t)
    /\ t[k] \notin WhiteSpace
    /\ t[k + 1] \notin WhiteSpace

\* C7: _split_content makes progress in every iteration (cur gets strictly
\* shorter, so the loop ends after at most len(s) iterations), every chunk has at
\* most limit characters, the chunks carry the input's characters in the input's
\* order, and a cut falls inside a word only when the first limit characters of
\* the remaining text hold neither a newline nor a space.
C7_SplitChunks ==
    fn \in {"_split_content", "_split_content.return"} =>
        LET s == IF arg[1] = NoText THEN <<>> ELSE arg[1]
            limit == arg[2]
            rest == IF fn = "_split_content" THEN cur ELSE <<>>
        IN /\ \A i \in DOMAIN out : Len(out[i]) <= limit
           /\ NonWs(Flatten(out) \o rest) = NonWs(s)
           /\ Len(out) <= Len(s)
           /\ lastcut # NoDict =>
                 /\ Len(cur) < Len(lastcut.text)
                 /\ CutInsideWord(lastcut.text, lastcut.cut) =>
                       \A i \in 1..limit : lastcut.text[i] \notin {"\n", " "}

\* a 5,000-character text without separators: three chunks, hard cuts at 2,000
C7_Witness ==
    /\ fn = "_split_content.return"
    /\ arg[2] = 2000
    /\ Len(arg[1]) = 5000
    /\ Len(res) = 3
    /\ Len(res[1]) = 2000
    /\ CutInsideWord(lastcut.text, lastcut.cut)

\* C8: a description longer than 4,096 characters comes back as exactly 4,096
\* characters, its first 4,093 followed by three periods; a shorter one comes
\* back unchanged.
C8_TruncateExact ==
    (fn = "_truncate_embed_description" /\ arg # NoText) =>
        IF Len(arg) > 4096
        THEN /\ Len(res) = 4096
             /\ SubSeq(res, 1, 4093) = SubSeq(arg, 1, 4093)
             /\ SubSeq(res, 4094, 4096) = <<".", ".", ".">>
        ELSE res = arg

C8_Witness ==
    /\ fn = "_truncate_embed_description"
    /\ arg # NoText
    /\ Len(arg) = 5000
    /\ Len(res) = 4096
    /\ res[4096] = "."

\* what rotate did to the stamped files of one kind, under the cap given for it
PrunedOldest(before, after, ext, cap) ==
    LET all == {f \in before : f.stem = "calendar" /\ f.stamp # 0 /\ f.ext = ext}
        kept == all \cap after
        gone == all \ after
    IN IF Cardinality(all) > cap
       THEN /\ Cardinality(gone) = Cardinality(all) - cap
            /\ Cardinality(kept) = cap
            /\ \A g \in gone, k \in kept : g.mtime < k.mtime
       ELSE gone = {}

\* C9: rotate_snapshot_files removes exactly the N-C oldest-by-mtime stamped
\* screenshots when N > C and none otherwise, prunes the stamped HTML files the
\* same way under their own cap, and never removes a non-stamped file.
C9_RotateExact ==
    fn = "rotate_snapshot_files" =>
        /\ res \subseteq arg.files
        /\ PrunedOldest(arg.files, res, "png", arg.max_png)
        /\ PrunedOldest(arg.files, res, "html", arg.max_html)
        /\ \A f \in arg.files : f.stamp = 0 => f \in res

\* three screenshots under a cap of 1 (two removed, not the two lowest stamps),
\* two HTML files under a cap of 2 (none removed), the latest files present
C9_Witness ==
    /\ fn = "rotate_snapshot_files"
    /\ arg.max_png = 1
    /\ arg.max_html = 2
    /\ Cardinality({f \in arg.files : f.ext = "png" /\ f.stamp # 0}) = 3
    /\ Cardinality({f \in arg.files : f.ext = "html" /\ f.stamp # 0}) = 2
    /\ Cardinality({f \in arg.files : f.stamp = 0}) = 3
    /\ Cardinality(arg.files \ res) = 2
    /\ \E f \in res : f.ext = "png" /\ f.stamp = 1

-----------------------------------------------------------------------------
(* Claims about the gate and the configuration loader, under SpecMain *)

\* the required keys config.json lacks
MissingKeys == Range(RequiredKeys) \ config_json.keys

\* main() has called load_config()
LoadAttempted == mpc \notin {"gate", "main_load", "exit_outside_window"}

\* C4: when the configuration document lacks a required key, loading fails
\* with an error that names a key the document lacks (the lacking key, when
\* there is one), the process ends there, no load ever returns a document
\* and no browser session is launched.
C4_MissingKeyStopsRun ==
    MissingKeys # {} =>
        /\ browser = 0
        /\ loads = 0
        /\ LoadAttempted =>
              /\ mpc = "exit_config_error"
              /\ error \in MissingKeys
              /\ exit_code = 1

C4_Witness ==
    /\ MissingKeys = {"css_class_patterns"}
    /\ mpc = "exit_config_error"
    /\ error = "css_class_patterns"
    /\ browser = 0

\* the run was forced by the environment toggle or the command-line flag
Forced == MONITOR_FORCE \/ args.force

\* main() went past the gate
Proceeded == mpc \notin {"gate", "exit_outside_window"}

InWindow(h) == MONITOR_START_HOUR <= h /\ h <= MONITOR_END_HOUR

\* C5 as stated: a non-forced run proceeds only when
\* start_hour <= current JST hour <= end_hour.
C5_ProceedsOnlyInJstWindow ==
    (mpc # "gate" /\ ~Forced /\ Proceeded) => InWindow(jst_hour)

\* C5, amended: a non-forced run whose clock can be read proceeds exactly
\* when start_hour <= h <= end_hour, both ends included, where h is the hour
\* jst_now() returns: the JST hour with pytz, the hour of the naive local
\* clock without it.  A run whose clock cannot be read proceeds, and so does
\* a forced run at any hour.  A run stopped at the gate exits with status 0
\* before any configuration load, browser launch or webhook request.
C5_GateExact ==
    mpc # "gate" =>
        /\ (~Forced /\ pytz = "ok") => (Proceeded <=> InWindow(jst_hour))
        /\ (~Forced /\ pytz = "absent") => (Proceeded <=> InWindow(local_hour))
        /\ (Forced \/ pytz = "raises") => Proceeded
        /\ ~Proceeded => (exit_code = 0 /\ loads = 0 /\ browser = 0 /\ posts = 0 /\ error = "")

\* the default window: hour 23 is let through
C5_Witness ==
    /\ ~Forced
    /\ pytz = "ok"
    /\ MONITOR_START_HOUR = 5
    /\ MONITOR_END_HOUR = 23
    /\ jst_hour = 23
    /\ mpc = "main_load"

\* the default window: hour 4 is turned away
C5_WitnessRejected ==
    /\ ~Forced
    /\ pytz = "ok"
    /\ MONITOR_START_HOUR = 5
    /\ MONITOR_END_HOUR = 23
    /\ jst_hour = 4
    /\ mpc = "exit_outside_window"
    /\ exit_code = 0

\* a forced run outside the window reaches the browser launch
C5_WitnessForced ==
    /\ Forced
    /\ pytz = "ok"
    /\ ~InWindow(jst_hour)
    /\ browser = 1

-----------------------------------------------------------------------------
(* Claims about the facility loop, under Spec (C28 under SpecOwed) *)

\* the run has observed the month, and the run before it wrote the month's
\* payload: what that run saw is the payload this run read
AfterSavedRun == saved_last /\ prev_payload # NoDict /\ details # <<>>

\* day number -> status, of the details the previous run saved and of those
\* this run observed (the i-th detail is that of day cell i)
Before == [d \in Days |-> prev_payload.details[d].status]
Now == [d \in Days |-> details[d].status]

\* the four counts of a day -> status map
Counts(st) == [k \in Statuses |-> Cardinality({e \in Days : st[e] = k})]

\* day d went from unavailable to available between the two runs and no
\* other day changed
OneDayOpened(before, seen, d) ==
    /\ before[d] = "batsu"
    /\ seen[d] = "maru"
    /\ \A e \in Days \ {d} : before[e] = seen[e]

\* the payload on disk holds what this run observed
PayloadIsNew(seen) ==
    /\ disk.payload # NoDict
    /\ disk.payload.details = details
    /\ disk.payload.summary = Counts(seen)

C2_WitnessNoRange ==
    /\ AfterSavedRun
    /\ OneDayOpened(Before, Now, 1)
    /\ rpc = "notified"
    /\ PayloadIsNew(Now)
    /\ calls = <<>>

\* the days whose pair (status in the baseline, status now) is an improvement
ImprovedNow ==
    IF prev_payload = NoDict THEN {}
    ELSE LET before == Before
             seen == Now
         IN {d \in Days : <<before[d], seen[d]>> \in IMPROVE_TRANSITIONS}

OwedAndUnchanged ==
    IF AfterSavedRun
    THEN LET before == Before
             seen == Now
         IN  {d \in owed_last : before[d] = seen[d]}
    ELSE {}

\* the days of the lines built and of the lines handed to the client
DaysReported ==
    {time_lines[k].d : k \in DOMAIN time_lines}
        \cup UNION {{calls[i].lines[k].d : k \in DOMAIN calls[i].lines} : i \in DOMAIN calls}

\* C28: when the drill-down and the notification of a month are attempted,
\* status_counts.json already holds the current statuses; the one call of a
\* run carries lines only for days that improved between the payload the run
\* read and the one it wrote, one line a day; and a day whose improvement
\* the previous run persisted without handing a message on (the drill-down
\* raised or found no range, or nothing was sent) is not reported by a run
\* that sees the day's status unchanged.
C28_PersistedBeforeReported ==
    /\ rpc \in {"persisted", "notified"}
          => disk.payload = [month |-> month_text, summary |-> summary, details |-> details]
    /\ DaysReported # {} => rpc = "notified" /\ DaysReported \subseteq ImprovedNow
    /\ Len(calls) <= 1
    /\ \A i \in DOMAIN calls : \A j, k \in DOMAIN calls[i].lines :
          j # k => calls[i].lines[j].d # calls[i].lines[k].d
    /\ OwedAndUnchanged \cap DaysReported = {}

\* the previous run persisted the improvement of day 1 and handed no message
\* on for it; this run sees the same statuses, has gone through its
\* notification step and has made no call
C28_Witness ==
    /\ AfterSavedRun
    /\ 1 \in owed_last
    /\ Before = Now
    /\ rpc = "notified"
    /\ disk.payload.details = details
    /\ calls = <<>>

\* the files of the output directory that nothing was written after: those
\* of the newest write, with or without a time stamp in their names
WrittenLast(stamped, ext) ==
    {f \in disk.files : /\ f.ext = ext
                        /\ (f.stamp # 0) = stamped
                        /\ \A g \in disk.files : g.mtime <= f.mtime}

\* the new summary differs from the persisted one in one of the four counts
\* (a month with no persisted summary counts as differing)
SummaryDiffers ==
    \/ prev_payload = NoDict
    \/ \E k \in Statuses : prev_payload.summary[k] # summary[k]

\* C10: once save_calendar_assets has returned, calendar.html and
\* calendar.png are the newest files of the directory, and a stamped pair
\* was written with them if and only if the new summary differs from the
\* persisted one in at least one of the four counts.
C10_StampedPairIffChanged ==
    rpc \in {"persisted", "notified"} =>
        LET differs == SummaryDiffers
        IN /\ Cardinality(WrittenLast(FALSE, "html")) = 1
           /\ Cardinality(WrittenLast(FALSE, "png")) = 1
           /\ ts_pair <=> differs
           /\ Cardinality(WrittenLast(TRUE, "html")) = (IF differs THEN 1 ELSE 0)
           /\ Cardinality(WrittenLast(TRUE, "png")) = (IF differs THEN 1 ELSE 0)

\* the two days swapped their statuses: the details differ, the counts do
\* not, and no stamped pair is written
C10_Witness ==
    /\ rpc = "persisted"
    /\ AfterSavedRun
    /\ Before[1] = "batsu" /\ Before[2] = "maru"
    /\ Now[1] = "maru" /\ Now[2] = "batsu"
    /\ ~ts_pair
    /\ WrittenLast(TRUE, "png") = {}

\* a count changed: the stamped pair is written beside the latest pair
C10_WitnessChanged ==
    /\ rpc = "persisted"
    /\ AfterSavedRun
    /\ \A d \in Days : Before[d] = "batsu"
    /\ Now[1] = "maru"
    /\ ts_pair
    /\ Cardinality(WrittenLast(TRUE, "png")) = 1

-----------------------------------------------------------------------------
(* Claims on the vacancy summarizer, checked under SpecCells *)

\* the characters a cell shows, a space for every tag
ShownText(cell) == [i \in DOMAIN cell.inner |-> cell.inner[i].c]

\* the status a literal glyph in t gives (circle before triangle before
\* cross), the status a keyword of a table in t gives (the same order,
\* whatever the case of the letters), and the status of a text: its glyph's,
\* else its keyword's, else None
GlyphIn(t) ==
    IF "maru" \in Range(t) \/ "large_maru" \in Range(t) THEN "maru"
    ELSE IF "sankaku" \in Range(t) THEN "sankaku"
    ELSE IF "batsu" \in Range(t) THEN "batsu"
    ELSE None
KeywordIn(t, table) ==
    IF \E kw \in table.circle : Contains(Lower(t), Lower(kw)) THEN "maru"
    ELSE IF \E kw \in table.triangle : Contains(Lower(t), Lower(kw)) THEN "sankaku"
    ELSE IF \E kw \in table.cross : Contains(Lower(t), Lower(kw)) THEN "batsu"
    ELSE None
TextStatus(t) ==
    IF GlyphIn(t) # None THEN GlyphIn(t) ELSE KeywordIn(t, CellConfig.status_patterns)

\* the statuses an image's alt, title and src hold a glyph or a keyword of
ImageStatuses(img) ==
    {TextStatus(img.alt), TextStatus(img.title), TextStatus(img.src)} \ {None}

\* the last cell was counted, and its text does not show the ideographic circle
Counted == td # NoDict /\ td_out # NoDict
PlainCounted == Counted /\ "kanji_zero" \notin Range(ShownText(td))

\* the five steps as stated: glyph in the text, keyword in the text, keyword
\* in the first image that has one, keyword in the class, unknown
StatedChain(cell) ==
    LET text == ShownText(cell)
        imgs == ImagesOf(cell.inner)
        of_img(j) == KeywordIn(Joined(Joined(imgs[j].alt, imgs[j].title), imgs[j].src),
                               CellConfig.status_patterns)
        hits == {j \in DOMAIN imgs : of_img(j) # None}
        in_class == KeywordIn(cell.class, CellConfig.css_class_patterns)
    IN IF GlyphIn(text) # None THEN GlyphIn(text)
       ELSE IF KeywordIn(text, CellConfig.status_patterns) # None
            THEN KeywordIn(text, CellConfig.status_patterns)
       ELSE IF hits # {} THEN of_img(Min(hits))
       ELSE IF in_class # None THEN in_class
       ELSE "mihantei"

C11_WitnessLowerSources ==
    /\ td # NoDict
    /\ td.class = <<"O", "K">>
    /\ td.aria = <<"maru">>
    /\ ImagesOf(td.inner) = <<Img(<<>>, <<>>, <<"o", "k">>)>>
    /\ td_out # NoDict
    /\ td_out.status = "batsu"

\* the number an independent reading of a day text gives: its digits
DetailDayNumber(day) == IntOf(SelectSeq(day, LAMBDA c : c \in Digits))

\* C12 as stated: every Day Detail carries a day number between 1 and 31,
\* and every counted cell has a Day Detail.
C12_DayNumbersInRange ==
    /\ \A i \in DOMAIN cell_details : DetailDayNumber(cell_details[i].day) \in 1..31
    /\ cell_summary # NoDict =>
          cell_summary["maru"] + cell_summary["sankaku"] + cell_summary["batsu"]
              + cell_summary["mihantei"] = Len(cell_details)

\* C13 as stated: a counted cell whose text shows the ideographic circle has
\* the canonical Available status.
C13_IdeographicCircleIsAvailable ==
    (Counted /\ "kanji_zero" \in Range(ShownText(td))) => td_out.status = "maru"

\* C30: for the same cell the markup path and the live-element fallback give
\* the same day value and the same status (a cell one path skips, the other
\* skips too), so that the Month Summary and the Day Details of a calendar
\* do not depend on the path that ran.
C30_PathsAgree ==
    td # NoDict => MarkupResults[td] = FallbackResults[td]

\* the fallback ran and counted a cell the markup path would have counted
\* with the same day value and status
C30_Witness ==
    /\ ~html_ok
    /\ td = Cell(<<"5", "nichi">>, <<"batsu">>, <<>>, <<>>, <<>>)
    /\ td_out = [day |-> <<"5", "nichi">>, status |-> "batsu"]
    /\ MarkupResults[td] = td_out

-----------------------------------------------------------------------------
(* Claims on the notification client, checked under SpecNotify *)

\* the wait the statement gives a Retry-After header: the server's delay, 1.0 s
\* when there is none, and no less than 0.5 s
StatedWait(h) ==
    CASE h = NoText -> 10
      [] h = <<"3">> -> 30
      [] h = <<"0", ".", "2">> -> 5

\* the answer is an HTTP 429
Is429(r) == r.kind = "http_error" /\ r.code = 429

\* C14: one call of _post makes at most 3 attempts; an attempt is followed by
\* another one only if it was answered by HTTP 429 and was the first or the
\* second, and then after a wait of max(0.5 s, the server's delay or 1.0 s);
\* every other answer, and a 429 to the third attempt, is returned to the
\* caller with no further attempt.
C14_AtMostThreeAttempts ==
    /\ tries <= 3
    /\ Len(attempts) = tries
    /\ \A i \in DOMAIN attempts :
          (i < Len(attempts) \/ npc = "post") =>
              /\ Is429(attempts[i].resp)
              /\ i < 3
              /\ attempts[i].slept = StatedWait(attempts[i].resp.retry_after)
    /\ npc = "post_returned" =>
          LET last == attempts[Len(attempts)].resp
          IN /\ ~Is429(last) \/ Len(attempts) = 3
             /\ payloads[Len(payloads)].status = last.code

\* three attempts, each answered by 429: waits of 1.0 s and 3.0 s, and the
\* third 429 is returned
C14_Witness ==
    /\ npc = "post_returned"
    /\ tries = 3
    /\ \A i \in 1..3 : Is429(attempts[i].resp)
    /\ attempts[1].slept = 10
    /\ attempts[2].slept = 30
    /\ payloads[Len(payloads)].status = 429

\* C15 as stated: no delivery failure raises out of the notification client
\* into the run loop.
C15_DeliveryFailureSwallowed ==
    npc # "raised"

\* the mentions a payload's allowed_mentions lets through, and those its
\* mention text makes: a user id, or the broadcast kind of @everyone and @here
Permitted(allowed) ==
    allowed.users \cup (IF "everyone" \in allowed.parse THEN {<<"broadcast">>} ELSE {})
Used(mention) ==
    IF mention = <<>> THEN {}
    ELSE IF mention \in {<<"@everyone">>, <<"@here">>} THEN {<<"broadcast">>}
    ELSE {SubSeq(mention, 2, Len(mention) - 1)}

\* C19 as stated: the allowed_mentions of every payload lets through exactly
\* the mention its content starts with.
C19_AllowedIsExactlyTheMode ==
    \A i \in DOMAIN payloads :
        Permitted(payloads[i].allowed) = Used(payloads[i].mention)

-----------------------------------------------------------------------------
(* Claims about the run over several facilities, checked under SpecLoop *)

\* the run is over, by the end of the loop or by an exception leaving it
RunEnded == lpc \in {"done", "aborted"}

\* the positions of the log at which facility f took a step
StepsOf(f) == {p \in DOMAIN log : log[p].fac = f}

\* facility f was attempted
Attempted(f) == StepsOf(f) # {}

\* the steps that belong to a month shift: the statements of a month and the
\* next-month clicks
ShiftOps == Range(MonthStages) \cup {"click", "click_failed"}

\* month s of facility f went through all its statements, in their order,
\* before position q
MonthComplete(f, s, q) ==
    \E p \in Len(MonthStages)..(q - 1) :
        \A i \in DOMAIN MonthStages : log[q - p + i - 1] = Event(f, s, MonthStages[i])

\* before position q facility f went through every month shift of its
\* configuration
Completed(f, q) ==
    \A s \in Shifts(facilities[f]) : MonthComplete(f, s, q)

\* before position q facility f was given up: its month loop was left at a
\* failed click, or its exception was handled
Abandoned(f, q) ==
    \E p \in 1..(q - 1) : log[q - p].fac = f /\ log[q - p].op \in {"click_failed", "handler"}

\* C16: whatever facility raises and whatever the handler's evidence capture
\* does, the run is not aborted and every configured facility is attempted by
\* the time the run is over.
C16_EveryFacilityAttempted ==
    /\ lpc # "aborted"
    /\ RunEnded => \A f \in DOMAIN facilities : Attempted(f)

\* the first facility raised, its evidence was captured, and the second
\* facility went through its current month
C16_Witness ==
    /\ lpc = "done"
    /\ \E p \in DOMAIN log : log[p] = Event(1, 0, "handler")
    /\ \E p \in DOMAIN log : log[p] = Event(2, 0, "notify")

\* C17: the steps of a run follow the configuration order of the facilities
\* and, within a facility, the ascending order of the month shifts from the
\* current month (shift 0); the next-month click towards shift s+1 comes only
\* after month s was summarized, persisted, drilled into and notified; and a
\* facility takes its first step only when the one before it has completed
\* all its month shifts or was abandoned.
C17_ConfigurationAndShiftOrder ==
    /\ \A p \in 1..(Len(log) - 1) :
        LET e == log[p]
            n == log[p + 1]
        IN  /\ e.fac <= n.fac
            /\ (e.fac = n.fac /\ n.op \in ShiftOps)
                  => /\ e.shift <= n.shift
                     /\ n.op \in {"click", "click_failed"} => n.shift = e.shift + 1
                     /\ n.op = "summarize" => e.op \in {"navigate", "click"}
                     /\ n.op \in Range(MonthStages) => n.shift = e.shift
    /\ \A q \in DOMAIN log :
        LET e == log[q]
        IN  /\ e.op = "navigate"
                  => IF q = 1
                     THEN e.fac = 1
                     ELSE /\ log[q - 1].fac = e.fac - 1
                          /\ Abandoned(e.fac - 1, q) \/ Completed(e.fac - 1, q)
            /\ e.op # "navigate" => q > 1 /\ log[q - 1].fac = e.fac
            /\ (e.op = "summarize" /\ log[q - 1].op = "navigate") => e.shift = 0
            /\ e.op \in {"click", "click_failed"}
                  => /\ MonthComplete(e.fac, 0, q)
                     /\ e.shift - 1 \in Shifts(facilities[e.fac])
                           => MonthComplete(e.fac, e.shift - 1, q)

\* a run over two facilities that is over: the first went through the months
\* of shifts 0 and 1 and the second, after it, through those of shifts 0 and 2
C17_Witness ==
    /\ lpc = "done"
    /\ \E p, q, r \in DOMAIN log :
        /\ p < q /\ q < r
        /\ log[p] = Event(1, 1, "notify")
        /\ log[q] = Event(2, 0, "summarize")
        /\ log[r] = Event(2, 2, "notify")

\* after the failed click of step k no month of a shift from k on and no
\* further click is a step of the facility
LaterShiftsNotAttempted ==
    \A f \in DOMAIN facilities :
        failed_step[f] # 0 =>
            \A p \in StepsOf(f) :
                /\ log[p].op \in Range(MonthStages) => log[p].shift < failed_step[f]
                /\ log[p].op = "click" => log[p].shift < failed_step[f]

\* the files the facility had written when the click failed are its files,
\* each as it was written
EarlierFilesKept ==
    \A f \in DOMAIN facilities : failed_step[f] # 0 => FilesOf(f) = frozen[f]

\* once the run is over, the facility after one whose click failed has been
\* attempted
MovesOnToNextFacility ==
    \A f \in DOMAIN facilities :
        (failed_step[f] # 0 /\ RunEnded /\ f < Len(facilities)) => Attempted(f + 1)

\* C18: when the next-month click of step k fails, no later shift of the
\* facility is attempted, the files written for its shifts 0..k-1 stay as they
\* were written, and the run goes on to the next facility.
C18_FailedClickEndsTheFacilityOnly ==
    /\ LaterShiftsNotAttempted
    /\ EarlierFilesKept
    /\ MovesOnToNextFacility

\* the click towards shift 2 failed for the first facility after the months
\* of shifts 0 and 1 were written, and the second facility was processed
C18_Witness ==
    /\ lpc = "done"
    /\ failed_step[1] = 2
    /\ {w.shift : w \in {v \in frozen[1] : v.file = "payload"}} = {0, 1}
    /\ FilesOf(1) = frozen[1]
    /\ \E p \in DOMAIN log : log[p] = Event(2, 0, "payload")

\* the steps facility f took, in their order
LogOf(f) == SelectSeq(log, LAMBDA e : e.fac = f)

\* the month offsets at which the steps of 'mine' did op
OffsetsOf(mine, op) == {mine[p].shift : p \in {q \in DOMAIN mine : mine[q].op = op}}

\* the facility's loop body ran to its end: the loop has gone past it, no
\* click failed and no exception was handled for it
RanThrough(f) ==
    /\ \/ idx > f
       \/ idx = f /\ lpc \in {"close", "done"}
    /\ \A p \in DOMAIN log : log[p].fac = f => log[p].op \notin {"click_failed", "handler"}

\* the offsets the configuration asks for: 0 and the members of month_shifts
\* from 1 on (none is above the greatest)
Captured(month_shifts) == {0} \cup {k \in Range(month_shifts) : k >= 1}

\* the offsets passed on the way that the configuration does not list
Skipped(month_shifts) ==
    {k \in 1..MaxShifts[month_shifts] : k \notin Range(month_shifts)}

\* C26: for a facility whose loop ran through, the month offsets that are
\* summarized, persisted and drilled into for their improved days are exactly
\* 0 and the members of its month_shifts from 1 to the greatest, in ascending
\* order; an offset on the way that is not listed is clicked through and no
\* payload or snapshot is written for it.
C26_CapturedOffsets ==
    \A f \in DOMAIN facilities :
        RanThrough(f) =>
            LET S == facilities[f].month_shifts
                mine == LogOf(f)
                months == SelectSeq(mine, LAMBDA e : e.op = "summarize")
                files == {w.shift : w \in FilesOf(f)}
            IN  /\ \A op \in Range(MonthStages) : OffsetsOf(mine, op) = Captured(S)
                /\ files = Captured(S)
                /\ \A q \in 1..(Len(months) - 1) : months[q].shift < months[q + 1].shift
                /\ \A k \in Skipped(S) : k \in OffsetsOf(mine, "click") /\ k \notin files

\* the run is over and a facility with month_shifts [2] ran through: the
\* months of offsets 0 and 2 were written, the month of offset 1 was clicked
\* through
C26_Witness ==
    /\ lpc = "done"
    /\ facilities[1].month_shifts = <<2>>
    /\ RanThrough(1)
    /\ {w.shift : w \in FilesOf(1)} = {0, 2}
    /\ 1 \in OffsetsOf(LogOf(1), "click")

\* C20: without BASE_URL the run ends before a browser session is opened and
\* before any facility is taken up.
C20_NoSessionWithoutBaseUrl ==
    BASE_URL = None => (session = "none" /\ log = <<>>)

\* the payloads of one kind handed to _post so far
PayloadsVia(via) == {i \in DOMAIN payloads : payloads[i].via = via}

\* send_embed was called: the first payload is the embed
EmbedCalled == payloads # <<>> /\ payloads[1].via = "embed"

\* C24: send_embed posts the embed once; the plain-text messages follow
\* exactly when the embed's final status is outside 200/204; it returns True
\* exactly when the embed was delivered or every plain-text message of the
\* fallback was.
C24_EmbedThenTextFallback ==
    EmbedCalled =>
        /\ PayloadsVia("embed") = {1}
        /\ (PayloadsVia("text") # {}) => (payloads[1].status # 0 /\ payloads[1].status \notin {200, 204})
        /\ npc = "returned" =>
              /\ (payloads[1].status \notin {200, 204}) => PayloadsVia("text") # {}
              /\ (sent = "True") <=>
                    \/ payloads[1].status \in {200, 204}
                    \/ \A i \in PayloadsVia("text") : payloads[i].status \in {200, 204}
              /\ sent \in {"True", "False"}

\* the embed was refused, two plain-text messages followed, the second was
\* refused too, and send_embed returned False
C24_Witness ==
    /\ npc = "returned"
    /\ EmbedCalled
    /\ payloads[1].status = 400
    /\ Len(payloads) = 3
    /\ payloads[2].status = 204
    /\ payloads[3].status = 400
    /\ sent = "False"

-----------------------------------------------------------------------------
(* Claims about the payload write, checked under SpecWrite *)

\* a file that is there holds the whole text of its payload
Whole(f) == f = Absent \/ f.len = DocLen

\* C21: at every point of a payload write, and after the process stopped at
\* any of them, status_counts.json holds the whole payload it held before the
\* write or the whole new payload, never a part of one, and the baseline the
\* next run reads is one of the two.
C21_PayloadWholeOldOrNew ==
    /\ Whole(dirfiles[PayloadPath])
    /\ load_last_payload(dirfiles) \in {prev_doc, new_doc}
    /\ wpc = "loaded" => baseline \in {prev_doc, new_doc}

\* the process stopped while the second payload was half written, and the
\* next run read the first payload as its baseline
C21_Witness ==
    /\ wpc = "loaded"
    /\ prev_doc # 0 /\ new_doc # prev_doc
    /\ baseline = prev_doc
    /\ dirfiles[WithTmpSuffix(PayloadPath)].doc = new_doc
    /\ dirfiles[WithTmpSuffix(PayloadPath)].len \in 1..(DocLen - 1)

-----------------------------------------------------------------------------
(* Claims about the way to a later facility, checked under SpecNav *)

\* the names of the steps taken, in order
StepNames(steps) == [i \in DOMAIN steps |-> steps[i].step]

\* the chain in its order: the back control, then the selection by code, then
\* the full re-entry
InChainOrder(steps) ==
    StepNames(steps) \in {<<>>, <<"back">>, <<"back", "select">>, <<"back", "select", "post">>,
                          <<"back", "reentry">>, <<"back", "select", "reentry">>}

\* a back step or a selection step that did not succeed
FailedBeforeReentry(steps) ==
    \E i \in DOMAIN steps : steps[i].step \in {"back", "select"} /\ steps[i].result # "true"

\* the full re-entry was attempted
ReentryAttempted(steps) == \E i \in DOMAIN steps : steps[i].step = "reentry"

\* C22: for every facility after the first the steps are taken in the order
\* back control, selection by code, full re-entry; a back or selection step
\* that fails always leads to the full re-entry, and the facility is given up
\* only when the full re-entry failed.
C22_FailuresLeadToReentry ==
    /\ InChainOrder(nav_steps)
    /\ \A i \in DOMAIN nav_done :
        /\ InChainOrder(nav_done[i].steps)
        /\ FailedBeforeReentry(nav_done[i].steps) => ReentryAttempted(nav_done[i].steps)
        /\ nav_done[i].fate = "abandoned"
              => nav_done[i].steps[Len(nav_done[i].steps)] = NavStep("reentry", "raised")

\* the order of the chain alone
ChainOrderKept ==
    /\ InChainOrder(nav_steps)
    /\ \A i \in DOMAIN nav_done : InChainOrder(nav_done[i].steps)

\* a facility whose back control worked, whose selection by code returned
\* False, and which was reached by the full re-entry
C22_Witness ==
    \E i \in DOMAIN nav_done :
        /\ nav_done[i].fate = "ready"
        /\ nav_done[i].steps = <<NavStep("back", "true"), NavStep("select", "false"),
                                 NavStep("reentry", "true")>>

-----------------------------------------------------------------------------
(* Claims about the next-month click, checked under SpecClick *)

\* text c names the month that follows the month text p names
Successor(p, c) ==
    /\ MonthMatch(p) # <<>>
    /\ c = _compute_next_month_text(p)

\* C23 as stated: the click is reported as failed whenever the page does not
\* show the month after the previous month text, and a month is captured only
\* under the month text that follows the previous one.
C23_OnlySuccessorCaptured ==
    /\ fn = "click_next_month"
          => (~Successor(arg.prev_month_text, arg.shown) => ~res.ok)
    /\ (fn = "run_monitor" /\ res.captured)
          => Successor(arg.prev_month_text, res.month_text2)

\* C23 (amended): the click is reported as failed whenever click_next_month
\* reads a month text after it that is not the successor of the previous
\* month text; when it reads none, the click is reported as done, and the
\* month is captured under the text read next or under shift_<step>.
C23_ReadNonSuccessorFails ==
    /\ fn = "click_next_month"
          => /\ (arg.seen # NoText /\ ~Successor(arg.prev_month_text, arg.seen)) => ~res.ok
             /\ (arg.on_month_view /\ arg.clicked /\ arg.seen = NoText) => res.ok
             /\ (arg.on_month_view /\ arg.clicked /\ Successor(arg.prev_month_text, arg.seen)) => res.ok
    /\ (fn = "run_monitor" /\ res.captured)
          => /\ arg.seen = NoText \/ Successor(arg.prev_month_text, arg.seen)
             /\ res.month_text2 \in {arg.shown, ShiftText(arg.step)}

\* the page shows the month before the previous one (a click that went
\* backward), the text is read, and the click is reported as failed
C23_Witness ==
    /\ fn = "click_next_month"
    /\ arg.clicked /\ arg.on_month_view
    /\ arg.prev_month_text = MonthText(FirstYear, 12)
    /\ arg.seen = MonthText(FirstYear, 11)
    /\ ~res.ok

\* the December text is followed by the January text of the next year and
\* the month is captured under it
C23_WitnessCaptured ==
    /\ fn = "run_monitor"
    /\ res.captured
    /\ arg.prev_month_text = MonthText(FirstYear, 12)
    /\ res.month_text2 = MonthText(FirstYear + 1, 1)

-----------------------------------------------------------------------------
(* Claims about the key of a month, checked under SpecClick *)

\* a month text of the form <year>nen<month>gatsu
Canonical(t) ==
    LET m == MonthMatch(t)
    IN  m # <<>> /\ t = MonthText(m[1], m[2])

\* C29 as stated: the key a month is persisted and looked up under, and the
\* name of its directory, is a month text of the canonical form, naming the
\* month the calendar shows.
C29_KeyIsCanonicalMonthText ==
    /\ fn = "run_monitor.current"
          => Canonical(res.month_text) /\ res.month_text = arg.shown /\ res.outdir = res.month_text
    /\ (fn = "run_monitor" /\ res.captured)
          => Canonical(res.month_text2) /\ res.month_text2 = arg.shown
                /\ res.outdir2 = res.month_text2

\* C29 (amended): the key and the directory name of a month is the month
\* text read from the page, of the canonical form and naming the month the
\* calendar shows, whenever one is read; when none is read the key is
\* "unknown" for the current month and "shift_<step>" for the month of a
\* later step.
C29_KeyIsTextReadOrFallback ==
    /\ fn = "run_monitor.current"
          => /\ res.outdir = res.month_text
             /\ IF arg.seen # NoText
                THEN Canonical(res.month_text) /\ res.month_text = arg.shown
                ELSE res.month_text = <<"u", "n", "k", "n", "o", "w", "n">>
    /\ (fn = "run_monitor" /\ res.captured)
          => /\ res.outdir2 = res.month_text2
             /\ \/ Canonical(res.month_text2) /\ res.month_text2 = arg.shown
                \/ res.month_text2 = <<"s", "h", "i", "f", "t", "_">> \o StrOf(arg.step)

\* the month of step 2 was captured under "shift_2"
C29_Witness ==
    /\ fn = "run_monitor"
    /\ res.captured
    /\ arg.step = 2
    /\ res.outdir2 = <<"s", "h", "i", "f", "t", "_", "2">>

\* the current month was captured under the month text the page shows
C29_WitnessCanonical ==
    /\ fn = "run_monitor.current"
    /\ arg.shown = MonthText(FirstYear, 12)
    /\ res.outdir = MonthText(FirstYear, 12)

-----------------------------------------------------------------------------
(* Claims about the time slots of an improved day, checked under SpecSlots *)

\* C25: once a run has drilled into an improved day the day has its own
\* baseline document, and a later run reports of the day's available ranges
\* only those that were not available at the drill before.
C25_OnlyNewRangesReported ==
    /\ drills >= 1 => day_docs # {}
    /\ drills >= 2 => Range(reported) \cap prev_avail = {}

\* the second drill into the day reports the range of the first row, which
\* the first drill had found available too, next to a new one
C25_Witness ==
    /\ drills = 2
    /\ prev_avail = {RowRange(1)}
    /\ reported = <<RowRange(1), RowRange(2)>>

-----------------------------------------------------------------------------
(* Claims about the drill into the improved days, checked under SpecDrill *)

\* the click of the day cell was done
DayCellClicked(e) == e.path \notin {"no_anchor", "click_failed"}

\* C27: for every improved day whose day cell was clicked the back control
\* is clicked or its click attempted before the next improved day is taken
\* up, on every way through the function, and a back click that fails
\* leaves the loop going with the next improved day.
C27_BackBeforeNextDay ==
    /\ \A i \in DOMAIN drill_log : DayCellClicked(drill_log[i]) => drill_log[i].back # "none"
    /\ drill_pc # "raised"

\* on the ways the claim names the back control is clicked or its click
\* attempted before the function returns
BackOnNamedPaths ==
    \A i \in DOMAIN drill_log :
        drill_log[i].path \in {"no_header", "no_column", "scan_raised", "normal"}
            => drill_log[i].back # "none"

\* the header of the first improved day was never detected, no back control
\* could be clicked, and the second improved day was scanned
C27_Witness ==
    /\ Len(drill_log) = 2
    /\ drill_log[1] = [path |-> "no_header", back |-> "not_clicked"]
    /\ drill_log[2].path = "normal"

=============================================================================
